---------------------------- MODULE Spec2Model ----------------------------
(***************************************************************************)
(* Scoring and ranking engine of the product-research platform:            *)
(*   usersim/app/services/churn_calculator.py   (ChurnCalculator)          *)
(*   app/services/prioritization_service.py     (PrioritizationService)    *)
(*   app/services/market_sizing.py              (MarketSizingEngine)       *)
(*                                                                         *)
(* Number representation.  The Python code computes with floats; the model *)
(* computes with exact decimals carried as integers:                       *)
(*   - churn percentages, risks, adjustments, final scores: hundredths     *)
(*     (30.01 is 3001); event severities and impacts: hundredths;          *)
(*   - patience multipliers: tenths (1.5 is 15);                           *)
(*   - JTBD importance / satisfaction / opportunity: tenths (8.5 is 85);   *)
(*   - penetration rates: thousandths (0.48 is 480);                       *)
(*   - effort: hundredths of a person-month; confidence: 1/300.            *)
(***************************************************************************)
EXTENDS Integers, Sequences, FiniteSets, TLC

VARIABLES
    FRUSTRATION_WEIGHTS,  \* ChurnCalculator.FRUSTRATION_WEIGHTS (class attribute)
    calc,                 \* the ChurnCalculator instance (user, patience_multiplier)
    churn,                \* the last calculate_churn call: its arguments and outcome
    call,                 \* the last call of a stateless method of the research
                          \* services: its arguments and what it returned
    prio,                 \* prioritize_pain_points in progress: its arguments,
                          \* its position and its local variables
    sim                   \* _simulate_scenario in progress: its arguments,
                          \* its position and its local variables

vars == <<FRUSTRATION_WEIGHTS, calc, churn, call, prio, sim>>
churnVars == <<FRUSTRATION_WEIGHTS, calc, churn>>

None == "None"

Min(a, b) == IF a <= b THEN a ELSE b
Max(a, b) == IF a >= b THEN a ELSE b
Abs(a) == IF a >= 0 THEN a ELSE 0 - a

Range(s) == {s[i] : i \in DOMAIN s}

RECURSIVE SeqSum(_)
SeqSum(s) == IF s = <<>> THEN 0 ELSE Head(s) + SeqSum(Tail(s))

SeqsUpTo(S, n) == UNION {[1..k -> S] : k \in 0..n}

(***************************************************************************)
(*                            CHURN CALCULATOR                             *)
(***************************************************************************)

\* FRUSTRATION_WEIGHTS as declared (whole percentage points)
DeclaredWeights ==
    [n \in {"long_wait", "feature_unavailable", "error_encountered",
            "retry_required", "unexpected_cost", "poor_quality",
            "lack_of_feedback", "driver_cancellation", "no_availability",
            "redirect_failure", "slow_response", "payment_failure",
            "data_loss", "security_concern"} |->
        CASE n = "long_wait" -> 30
          [] n = "feature_unavailable" -> 25
          [] n = "error_encountered" -> 20
          [] n = "retry_required" -> 10
          [] n = "unexpected_cost" -> 15
          [] n = "poor_quality" -> 20
          [] n = "lack_of_feedback" -> 10
          [] n = "driver_cancellation" -> 25
          [] n = "no_availability" -> 30
          [] n = "redirect_failure" -> 20
          [] n = "slow_response" -> 15
          [] n = "payment_failure" -> 35
          [] n = "data_loss" -> 40
          [] n = "security_concern" -> 50]

\* FRUSTRATION_WEIGHTS.get(event_name, 15)
DefaultWeight == 15
WeightOf(table, name) ==
    IF name \in DOMAIN table THEN table[name] ELSE DefaultWeight

\* PATIENCE_MULTIPLIERS, in tenths
PATIENCE_MULTIPLIERS ==
    [p \in {"low", "medium", "high"} |->
        CASE p = "low" -> 20 [] p = "medium" -> 15 [] p = "high" -> 10]

\* RISK_LEVELS, bounds in hundredths of a percentage point
RISK_LEVELS ==
    << <<0, 3000, "LOW">>, <<3100, 5000, "MEDIUM">>,
       <<5100, 7500, "HIGH">>, <<7600, 10000, "CRITICAL">> >>

\* (mutation of __init__: the multiplier read from the user's own field)
NewChurnCalculator_FromField(virtual_user) ==
    [user |-> virtual_user,
     patience_multiplier |-> virtual_user.patience_multiplier]

\* ChurnCalculator.__init__
NewChurnCalculator(virtual_user) ==
    [user |-> virtual_user,
     patience_multiplier |-> PATIENCE_MULTIPLIERS[virtual_user.patience_level]]

\* An event dict may lack its "event" key: event.get("event", "") then
\* gives "", and e["event"] raises KeyError.
NoKey == "<no key>"
EventName(e) == IF e.event = NoKey THEN "" ELSE e.event

\* one iteration of the event loop: risk_added = base_weight * severity
RiskAdded(table, e) == WeightOf(table, EventName(e)) * e.severity

RECURSIVE EventDetails(_, _)
EventDetails(table, events) ==
    IF events = <<>> THEN <<>>
    ELSE <<[event |-> EventName(Head(events)),
            risk_added |-> RiskAdded(table, Head(events))]>>
         \o EventDetails(table, Tail(events))

\* any(e["event"] == trigger.trigger for e in frustration_events):
\* "hit", "miss", or "KeyError" when an event without the key is reached
\* before a match
RECURSIVE TriggerHit(_, _)
TriggerHit(events, name) ==
    IF events = <<>> THEN "miss"
    ELSE IF Head(events).event = NoKey THEN "KeyError"
    ELSE IF Head(events).event = name THEN "hit"
    ELSE TriggerHit(Tail(events), name)

\* the trigger loop: the details appended for the declared triggers;
\* raised as soon as one membership test raises KeyError
RECURSIVE TriggerDetails(_, _)
TriggerDetails(triggers, events) ==
    IF triggers = <<>> THEN [raised |-> FALSE, details |-> <<>>]
    ELSE LET t == Head(triggers)
             h == TriggerHit(events, t.trigger)
             rest == TriggerDetails(Tail(triggers), events)
         IN IF h = "KeyError" \/ rest.raised
            THEN [raised |-> TRUE, details |-> <<>>]
            ELSE IF h = "hit"
                 THEN [raised |-> FALSE,
                       details |-> <<[event |-> t.trigger \o "_user_specific",
                                      risk_added |-> t.impact]>>
                                   \o rest.details]
                 ELSE rest

RECURSIVE RiskTotal(_)
RiskTotal(details) ==
    IF details = <<>> THEN 0
    ELSE Head(details).risk_added + RiskTotal(Tail(details))

\* _parse_ai_adjustments
RECURSIVE AdjustmentTotal(_)
AdjustmentTotal(adjs) ==
    IF adjs = <<>> THEN 0
    ELSE Head(adjs).adjustment + AdjustmentTotal(Tail(adjs))

_parse_ai_adjustments(context, total_adjustment) ==
    LET t == context.time_invested_seconds
        sunk == IF t > 0
                THEN <<[factor |-> "sunk_cost_effect",
                        adjustment |-> Min(-1000, 0 - (t * 5))]>>
                ELSE <<>>
        urg == IF context.urgency = "high"
               THEN <<[factor |-> "high_urgency", adjustment |-> -500]>>
               ELSE IF context.urgency = "low"
               THEN <<[factor |-> "low_urgency", adjustment |-> 1000]>>
               ELSE <<>>
        alt == IF context.alternatives_available
               THEN <<[factor |-> "easy_alternatives", adjustment |-> 1000]>>
               ELSE <<>>
        fail == IF context.failure_count = 1
                THEN <<[factor |-> "first_failure", adjustment |-> -500]>>
                ELSE IF context.failure_count >= 3
                THEN <<[factor |-> "repeated_failures", adjustment |-> 1500]>>
                ELSE <<>>
        named == sunk \o urg \o alt \o fail
        accounted == AdjustmentTotal(named)
    IN IF Abs(total_adjustment - accounted) > 10
       THEN named \o <<[factor |-> "other_context",
                        adjustment |-> total_adjustment - accounted]>>
       ELSE named

\* _get_risk_level
RECURSIVE RiskLevelFrom(_, _)
RiskLevelFrom(levels, churn_probability) ==
    IF levels = <<>> THEN "CRITICAL"
    ELSE IF Head(levels)[1] <= churn_probability
            /\ churn_probability <= Head(levels)[2]
         THEN Head(levels)[3]
         ELSE RiskLevelFrom(Tail(levels), churn_probability)

_get_risk_level(churn_probability) ==
    RiskLevelFrom(RISK_LEVELS, churn_probability)

\* max(events, key=lambda e: e["risk_added"]): the first maximal element
RECURSIVE FirstMax(_, _)
FirstMax(best, rest) ==
    IF rest = <<>> THEN best
    ELSE FirstMax(IF Head(rest).risk_added > best.risk_added
                  THEN Head(rest) ELSE best, Tail(rest))

\* _generate_reasoning: the template chosen and the two names put into it
_generate_reasoning(final_churn, events, adjustments) ==
    LET main_frustration ==
            IF events # <<>> THEN FirstMax(Head(events), Tail(events)).event
            ELSE "general friction"
        significant_adj == SelectSeq(adjustments,
                                     LAMBDA a : Abs(a.adjustment) >= 500)
        main_factor ==
            IF significant_adj # <<>> THEN significant_adj[1].factor
            ELSE "user patience"
    IN [template |-> IF final_churn < 3000 THEN "Low churn risk"
                     ELSE IF final_churn < 5000 THEN "Medium churn risk"
                     ELSE IF final_churn < 7500 THEN "High churn risk"
                     ELSE "Critical churn risk",
        main_frustration |-> main_frustration,
        main_factor |-> main_factor]

\* final_churn = min(calculated_risk + ai_context_adjustment, 100.0)
FinalChurn(calculated_risk, ai_context_adjustment) ==
    Min(calculated_risk + ai_context_adjustment, 10000)

\* calculated_risk = formula_risk * self.patience_multiplier
CalculatedRisk(c, formula_risk) ==
    (formula_risk * c.patience_multiplier) \div 10

\* calculate_churn: the ChurnAnalysis returned, or [raised |-> "KeyError"]
calculate_churn(c, table, frustration_events, context, ai_context_adjustment) ==
    LET base_risk == c.user.base_churn_risk
        event_part == EventDetails(table, frustration_events)
        trigger_part == TriggerDetails(c.user.frustration_triggers,
                                       frustration_events)
    IN IF trigger_part.raised THEN [raised |-> "KeyError"]
       ELSE
       LET event_details == event_part \o trigger_part.details
           frustration_risk == RiskTotal(event_details)
           formula_risk == base_risk + frustration_risk
           calculated_risk == CalculatedRisk(c, formula_risk)
           ai_adjustments == _parse_ai_adjustments(context, ai_context_adjustment)
           final_churn == FinalChurn(calculated_risk, ai_context_adjustment)
       IN [raised |-> None,
           base_risk |-> base_risk,
           frustration_events |-> event_details,
           formula_risk |-> formula_risk,
           patience_multiplier |-> c.patience_multiplier,
           calculated_risk |-> calculated_risk,
           ai_adjustments |-> ai_adjustments,
           final_churn_probability |-> final_churn,
           risk_level |-> _get_risk_level(final_churn),
           reasoning |-> _generate_reasoning(final_churn, event_details,
                                             ai_adjustments)]

\* add_custom_frustration_weight (it writes the class attribute)
add_custom_frustration_weight(table, event_name, weight) ==
    [n \in DOMAIN table \cup {event_name} |->
        IF n = event_name THEN weight ELSE table[n]]

(***************************************************************************)
(* Inputs of the churn calculator                                          *)
(***************************************************************************)
MaxEvents == 2

TriggerLists ==
    {<<>>,
     <<[trigger |-> "long_wait", threshold |-> 5, impact |-> 2000]>>,
     <<[trigger |-> "app_crash", threshold |-> 1, impact |-> 1000],
       [trigger |-> "long_wait", threshold |-> 5, impact |-> 2000]>>}

VirtualUsers ==
    [patience_level : {"low", "medium", "high"},
     patience_multiplier : {15, 30},
     frustration_triggers : TriggerLists,
     base_churn_risk : {1000}]

FrustrationEvents ==
    [event : {"long_wait", "retry_required", "app_crash"},
     severity : {50, 100}]
    \cup {[event |-> NoKey, severity |-> 100]}

Contexts ==
    [time_invested_seconds : {0, 300}, urgency : {"medium"},
     alternatives_available : {FALSE}, failure_count : {1}]
    \cup {[time_invested_seconds |-> 6, urgency |-> "high",
           alternatives_available |-> TRUE, failure_count |-> 3]}

Adjustments == {-5000, -1000, -495, 0, 50}

CustomWeights == [event_name : {"app_crash", "long_wait"}, weight : {40}]

NoCall == [op |-> None]

InitChurn ==
    /\ FRUSTRATION_WEIGHTS = DeclaredWeights
    /\ calc \in {NewChurnCalculator(u) : u \in VirtualUsers}
    /\ churn = NoCall
    /\ call = NoCall
    /\ prio = NoCall
    /\ sim = NoCall

\* calculate_churn reads the calculator and the weight table and writes
\* neither: the model records one call per behaviour, made after any number
\* of weight additions, which reaches every (table, arguments) pair.
CalculateChurn ==
    /\ churn = NoCall
    /\ \E events \in SeqsUpTo(FrustrationEvents, MaxEvents),
       context \in Contexts, adj \in Adjustments :
        churn' = [op |-> "calculate_churn",
                     events |-> events, context |-> context,
                     adjustment |-> adj,
                     weights |-> FRUSTRATION_WEIGHTS,
                     analysis |-> calculate_churn(calc, FRUSTRATION_WEIGHTS,
                                                  events, context, adj)]
    /\ UNCHANGED <<FRUSTRATION_WEIGHTS, calc, call, prio, sim>>

AddCustomFrustrationWeight ==
    \E w \in CustomWeights :
        /\ FRUSTRATION_WEIGHTS' =
               add_custom_frustration_weight(FRUSTRATION_WEIGHTS,
                                             w.event_name, w.weight)
        /\ UNCHANGED <<calc, churn, call, prio, sim>>

NextChurn == CalculateChurn \/ AddCustomFrustrationWeight

SpecChurn == InitChurn /\ [][NextChurn]_vars

(***************************************************************************)
(* Claims about the churn calculator                                       *)
(***************************************************************************)
Returned == churn.op = "calculate_churn" /\ churn.analysis.raised = None

RECURSIVE SumOver(_, _)
SumOver(f, S) ==
    IF S = {} THEN 0
    ELSE LET x == CHOOSE y \in S : TRUE IN f[x] + SumOver(f, S \ {x})

\* C1: every returned final_churn_probability lies in [0,100], the sum
\* calculated_risk + adjustment being clamped below at 0 and above at 100.
C1_FinalChurnWithinBounds ==
    Returned =>
        /\ churn.analysis.final_churn_probability >= 0
        /\ churn.analysis.final_churn_probability <= 10000

\* C2: for every final_churn_probability p in [0,100], whole or not, the
\* risk level is LOW for p <= 30, MEDIUM for 30 < p <= 50, HIGH for
\* 50 < p <= 75 and CRITICAL for 75 < p <= 100.
C2_RiskLevelBands ==
    LET p == churn.analysis.final_churn_probability IN
    (Returned /\ 0 <= p /\ p <= 10000) =>
        churn.analysis.risk_level =
            IF p <= 3000 THEN "LOW"
            ELSE IF p <= 5000 THEN "MEDIUM"
            ELSE IF p <= 7500 THEN "HIGH"
            ELSE "CRITICAL"

\* C3: formula_risk = base_churn_risk + the sum over the observed events of
\* weight(name) x severity (unknown names weigh 15) + the impact of every
\* declared trigger matched by at least one event (once per trigger);
\* calculated_risk = formula_risk x the multiplier of the patience enum
\* (low 2.0, medium 1.5, high 1.0), whatever the user's patience_multiplier
\* field holds; and base 10, medium patience, one long_wait event (declared
\* weight 30) of severity 1.0, no trigger and adjustment -10 give formula
\* risk 40, calculated risk 60, final 50 and level MEDIUM.
C3_EventRisk ==
    LET ev == churn.events
        w(n) == IF n \in DOMAIN churn.weights THEN churn.weights[n] ELSE 15
    IN SumOver([i \in DOMAIN ev |->
                   w(IF ev[i].event = NoKey THEN "" ELSE ev[i].event)
                   * ev[i].severity],
               DOMAIN ev)

C3_TriggerRisk ==
    LET tr == calc.user.frustration_triggers
        ev == churn.events
    IN SumOver([j \in DOMAIN tr |->
                   IF \E i \in DOMAIN ev : ev[i].event = tr[j].trigger
                   THEN tr[j].impact ELSE 0],
               DOMAIN tr)

C3_EnumMultiplier ==
    CASE calc.user.patience_level = "low" -> 20
      [] calc.user.patience_level = "medium" -> 15
      [] calc.user.patience_level = "high" -> 10

C3_FormulaAndExample ==
    Returned =>
        /\ churn.analysis.formula_risk =
               calc.user.base_churn_risk + C3_EventRisk + C3_TriggerRisk
        /\ churn.analysis.calculated_risk * 10 =
               churn.analysis.formula_risk * C3_EnumMultiplier
        /\ ( /\ calc.user.base_churn_risk = 1000
             /\ calc.user.patience_level = "medium"
             /\ calc.user.frustration_triggers = <<>>
             /\ churn.events = <<[event |-> "long_wait", severity |-> 100]>>
             /\ churn.weights["long_wait"] = 30
             /\ churn.adjustment = -1000 )
            => /\ churn.analysis.formula_risk = 4000
               /\ churn.analysis.calculated_risk = 6000
               /\ churn.analysis.final_churn_probability = 5000
               /\ churn.analysis.risk_level = "MEDIUM"

\* a trigger matched by two events, an unknown event name, and a user whose
\* patience_multiplier field differs from the multiplier of the enum
C3_Witness ==
    /\ Returned
    /\ calc.user.patience_level = "low"
    /\ calc.user.patience_multiplier = 15
    /\ Len(calc.user.frustration_triggers) = 2
    /\ churn.events = <<[event |-> "long_wait", severity |-> 100],
                        [event |-> "long_wait", severity |-> 50]>>
    /\ churn.analysis.formula_risk = 1000 + 3000 + 1500 + 2000

\* C23: the reasoning text of a ChurnAnalysis is selected by its risk_level:
\* for every final_churn_probability, the boundary values 30, 50 and 75
\* included, the reasoning starts with 'Low churn risk' iff risk_level is
\* LOW, 'Medium churn risk' iff MEDIUM, 'High churn risk' iff HIGH and
\* 'Critical churn risk' iff CRITICAL.
C23_ReasoningFollowsRiskLevel ==
    ( /\ Returned
      /\ churn.analysis.final_churn_probability >= 0
      /\ churn.analysis.final_churn_probability <= 10000 ) =>
        LET a == churn.analysis
        IN /\ a.reasoning.template = "Low churn risk"
                  <=> a.risk_level = "LOW"
           /\ a.reasoning.template = "Medium churn risk"
                  <=> a.risk_level = "MEDIUM"
           /\ a.reasoning.template = "High churn risk"
                  <=> a.risk_level = "HIGH"
           /\ a.reasoning.template = "Critical churn risk"
                  <=> a.risk_level = "CRITICAL"

\* C24: the frustration event and the contextual factor named by
\* _generate_reasoning are the event with the largest risk_added and the
\* adjustment with the largest absolute value among those listed in the
\* analysis, ties being broken in favour of the first occurrence in the
\* list.  (The factor is named by the 'Low' and the 'High' text.)
C24_NamesLargest ==
    Returned =>
        LET a == churn.analysis
            ev == a.frustration_events
            adj == a.ai_adjustments
        IN /\ ev # <<>> =>
                  \E i \in DOMAIN ev :
                      /\ a.reasoning.main_frustration = ev[i].event
                      /\ \A k \in DOMAIN ev :
                             ev[k].risk_added <= ev[i].risk_added
                      /\ \A k \in 1..(i - 1) :
                             ev[k].risk_added < ev[i].risk_added
           /\ ( /\ adj # <<>>
                /\ a.reasoning.template
                       \in {"Low churn risk", "High churn risk"} ) =>
                  \E i \in DOMAIN adj :
                      /\ a.reasoning.main_factor = adj[i].factor
                      /\ \A k \in DOMAIN adj :
                             Abs(adj[k].adjustment) <= Abs(adj[i].adjustment)
                      /\ \A k \in 1..(i - 1) :
                             Abs(adj[k].adjustment) < Abs(adj[i].adjustment)

\* C13: the factors listed in ai_adjustments sum exactly to the adjustment
\* supplied by the caller (an other_context entry makes up the difference
\* whenever there is one), so final_churn_probability =
\* min(calculated_risk + sum of ai_adjustments, 100).
C13_AdjustmentsSumToSupplied ==
    Returned =>
        LET a == churn.analysis
            total == AdjustmentTotal(a.ai_adjustments)
        IN /\ total = churn.adjustment
           /\ a.final_churn_probability = Min(a.calculated_risk + total, 10000)

\* C14: the sunk-cost factor listed for an elapsed time of t > 0 seconds is
\* -3 per minute, floored at -10: max(-10, -3 x t/60), never below -10 and
\* close to 0 for a few seconds.
C14_SunkCostFlooredAtMinusTen ==
    (Returned /\ churn.context.time_invested_seconds > 0) =>
        LET t == churn.context.time_invested_seconds
            a == churn.analysis.ai_adjustments
        IN /\ a # <<>>
           /\ a[1].factor = "sunk_cost_effect"
           /\ a[1].adjustment = Max(-1000, 0 - 5 * t)
           /\ a[1].adjustment >= -1000
           /\ t <= 10 => a[1].adjustment >= -100

\* a second call of calculate_churn with the arguments of the first, after
\* any number of weight additions made through other calculators
RepeatChurn ==
    /\ churn # NoCall
    /\ churn.op = "calculate_churn"
    /\ churn' = [op |-> "repeated",
                 first |-> churn,
                 weights |-> FRUSTRATION_WEIGHTS,
                 analysis |-> calculate_churn(calc, FRUSTRATION_WEIGHTS,
                                              churn.events, churn.context,
                                              churn.adjustment)]
    /\ UNCHANGED <<FRUSTRATION_WEIGHTS, calc, call, prio, sim>>

NextRepeat == CalculateChurn \/ AddCustomFrustrationWeight \/ RepeatChurn

SpecRepeat == InitChurn /\ [][NextRepeat]_vars

\* C20: calculate_churn is a pure function of (virtual user, frustration
\* events, context, supplied adjustment): two calls with equal arguments
\* return equal ChurnAnalysis values whatever was done in between through
\* other ChurnCalculator instances, add_custom_frustration_weight
\* included, and a weight added through one calculator leaves the weights
\* the other calculators see unchanged.
C20_EqualArgumentsEqualAnalysis ==
    (churn # NoCall /\ churn.op = "repeated") =>
        /\ churn.analysis = churn.first.analysis
        /\ churn.weights = churn.first.weights

(***************************************************************************)
(*                          MARKET SIZING ENGINE                           *)
(* Texts are sequences of characters, so that lower() and the substring   *)
(* test "keyword in text" are computed.                                    *)
(***************************************************************************)

\* MARKET_DATA: active_users per category
CategoryNames ==
    {"cab_booking", "qcommerce", "ecommerce", "fintech", "food_delivery",
     "developer_tools", "default"}

MARKET_DATA ==
    [c \in CategoryNames |->
        [active_users |->
            CASE c = "cab_booking" -> 50000000
              [] c = "qcommerce" -> 25000000
              [] c = "ecommerce" -> 200000000
              [] c = "fintech" -> 300000000
              [] c = "food_delivery" -> 80000000
              [] c = "developer_tools" -> 5000000
              [] c = "default" -> 50000000,
         market_size_musd |->
            CASE c = "cab_booking" -> 22250
              [] c = "qcommerce" -> 5380
              [] c = "ecommerce" -> 85000
              [] c = "fintech" -> 150000
              [] c = "food_delivery" -> 15000
              [] c = "developer_tools" -> 5000
              [] c = "default" -> 10000]]

\* self.category_keywords, in its declared (dict insertion) order
category_keywords ==
    << [category |-> "cab_booking",
        keywords |-> <<<<"c", "a", "b">>,
                      <<"t", "a", "x", "i">>,
                      <<"u", "b", "e", "r">>,
                      <<"o", "l", "a">>,
                      <<"r", "a", "p", "i", "d", "o">>,
                      <<"r", "i", "d", "e">>,
                      <<"b", "o", "o", "k", "i", "n", "g">>,
                      <<"t", "r", "a", "n", "s", "p", "o", "r", "t">>>>],
       [category |-> "qcommerce",
        keywords |-> <<<<"q", "c", "o", "m", "m", "e", "r", "c", "e">>,
                      <<"q", "u", "i", "c", "k", " ", "c", "o", "m", "m", "e", "r", "c", "e">>,
                      <<"g", "r", "o", "c", "e", "r", "y">>,
                      <<"z", "e", "p", "t", "o">>,
                      <<"b", "l", "i", "n", "k", "i", "t">>,
                      <<"i", "n", "s", "t", "a", "m", "a", "r", "t">>,
                      <<"d", "e", "l", "i", "v", "e", "r", "y">>,
                      <<"i", "n", "s", "t", "a", "n", "t">>>>],
       [category |-> "ecommerce",
        keywords |-> <<<<"e", "c", "o", "m", "m", "e", "r", "c", "e">>,
                      <<"s", "h", "o", "p", "p", "i", "n", "g">>,
                      <<"o", "n", "l", "i", "n", "e", " ", "s", "h", "o", "p", "p", "i", "n", "g">>,
                      <<"a", "m", "a", "z", "o", "n">>,
                      <<"f", "l", "i", "p", "k", "a", "r", "t">>,
                      <<"m", "e", "e", "s", "h", "o">>>>],
       [category |-> "fintech",
        keywords |-> <<<<"p", "a", "y", "m", "e", "n", "t">>,
                      <<"w", "a", "l", "l", "e", "t">>,
                      <<"u", "p", "i">>,
                      <<"b", "a", "n", "k", "i", "n", "g">>,
                      <<"l", "o", "a", "n">>,
                      <<"c", "r", "e", "d", "i", "t">>,
                      <<"p", "a", "y", "t", "m">>,
                      <<"p", "h", "o", "n", "e", "p", "e">>>>],
       [category |-> "food_delivery",
        keywords |-> <<<<"f", "o", "o", "d", " ", "d", "e", "l", "i", "v", "e", "r", "y">>,
                      <<"s", "w", "i", "g", "g", "y">>,
                      <<"z", "o", "m", "a", "t", "o">>,
                      <<"r", "e", "s", "t", "a", "u", "r", "a", "n", "t">>,
                      <<"o", "r", "d", "e", "r", " ", "f", "o", "o", "d">>>>],
       [category |-> "developer_tools",
        keywords |-> <<<<"a", "p", "i">>,
                      <<"d", "e", "v", "e", "l", "o", "p", "e", "r">>,
                      <<"c", "o", "d", "i", "n", "g">>,
                      <<"p", "r", "o", "g", "r", "a", "m", "m", "i", "n", "g">>,
                      <<"k", "u", "b", "e", "r", "n", "e", "t", "e", "s">>,
                      <<"d", "e", "p", "l", "o", "y", "m", "e", "n", "t">>,
                      <<"d", "e", "v", "o", "p", "s">>,
                      <<"c", "l", "o", "u", "d">>>>] >>
\* str.lower() on the letters the model's texts use
UpperCase == <<"A", "B", "C", "D", "E", "F", "G", "H", "I", "J", "K", "L",
               "M", "N", "O", "P", "Q", "R", "S", "T", "U", "V", "W", "X",
               "Y", "Z">>
LowerCase == <<"a", "b", "c", "d", "e", "f", "g", "h", "i", "j", "k", "l",
               "m", "n", "o", "p", "q", "r", "s", "t", "u", "v", "w", "x",
               "y", "z">>
LowerChar(c) ==
    IF \E i \in DOMAIN UpperCase : UpperCase[i] = c
    THEN LowerCase[CHOOSE i \in DOMAIN UpperCase : UpperCase[i] = c]
    ELSE c
Lower(text) == [i \in DOMAIN text |-> LowerChar(text[i])]

\* keyword in text
IsSubstring(k, text) ==
    \E i \in 1..(Len(text) - Len(k) + 1) : SubSeq(text, i, i + Len(k) - 1) = k

\* (mutation: the last category with a keyword in the text)
RECURSIVE FirstCategory_LastMatch(_, _)
FirstCategory_LastMatch(entries, text) ==
    IF entries = <<>> THEN "default"
    ELSE LET later == FirstCategory_LastMatch(Tail(entries), text)
         IN IF later # "default" THEN later
            ELSE IF \E j \in DOMAIN Head(entries).keywords :
                       IsSubstring(Head(entries).keywords[j], text)
            THEN Head(entries).category
            ELSE "default"

\* identify_market_category
RECURSIVE FirstCategory(_, _)
FirstCategory(entries, text) ==
    IF entries = <<>> THEN "default"
    ELSE IF \E j \in DOMAIN Head(entries).keywords :
               IsSubstring(Head(entries).keywords[j], text)
         THEN Head(entries).category
         ELSE FirstCategory(Tail(entries), text)

identify_market_category(problem_statement, target_users) ==
    FirstCategory(category_keywords,
                  Lower(problem_statement \o <<" ">> \o target_users))

\* (mutation: the tiers of 5 and of 10 mentions exchanged)
base_rate_TiersExchanged(frequency) ==
    IF frequency >= 10 THEN 3
    ELSE IF frequency >= 5 THEN 4
    ELSE IF frequency >= 3 THEN 2
    ELSE 1

\* _calculate_penetration_rate, the three factors in tenths
base_rate(frequency) ==
    IF frequency >= 10 THEN 4
    ELSE IF frequency >= 5 THEN 3
    ELSE IF frequency >= 3 THEN 2
    ELSE 1

\* (mutation: 50 to 99 comments taken as neutral)
comment_multiplier_NeutralFrom50(num_comments) ==
    IF num_comments >= 100 THEN 12
    ELSE IF num_comments >= 20 THEN 10
    ELSE 8

comment_multiplier(num_comments) ==
    IF num_comments >= 100 THEN 12
    ELSE IF num_comments >= 50 THEN 11
    ELSE IF num_comments >= 20 THEN 10
    ELSE 8

severity_multiplier(severity) ==
    CASE severity = "High" -> 12
      [] severity = "Medium" -> 10
      [] severity = "Low" -> 7
      [] OTHER -> 10

\* (mutation: the cap dropped)
_calculate_penetration_rate_NoCap(frequency, num_comments, severity) ==
    base_rate(frequency) * comment_multiplier(num_comments)
        * severity_multiplier(severity)

\* _calculate_penetration_rate, in thousandths
_calculate_penetration_rate(frequency, num_comments, severity) ==
    Min(base_rate(frequency) * comment_multiplier(num_comments)
            * severity_multiplier(severity), 500)

\* reach = int(base_users * penetration_rate).  Every active_users figure
\* is a multiple of 1000, so the decimal product is whole.  (The float
\* product of the three factors can fall an ulp short of the decimal one,
\* e.g. 0.1 * 1.0 * 0.7, and int() then gives one user less; the model
\* keeps the decimal value.)
ReachOf(base_users, penetration_rate) ==
    (base_users \div 1000) * penetration_rate

\* estimate_reach: reach and what the justification text is built from
estimate_reach(problem_statement, target_users, frequency, num_comments, severity) ==
    LET category == identify_market_category(problem_statement, target_users)
        base_users == MARKET_DATA[category].active_users
        penetration_rate ==
            _calculate_penetration_rate(frequency, num_comments, severity)
        reach == ReachOf(base_users, penetration_rate)
    IN [reach |-> reach,
        justification |-> [category |-> category,
                           base_users |-> base_users,
                           penetration_rate |-> penetration_rate,
                           reach |-> reach,
                           frequency |-> frequency,
                           num_comments |-> num_comments,
                           severity |-> severity]]

(***************************************************************************)
(* Inputs of the market sizing engine                                      *)
(***************************************************************************)
MaxFrequency == 11

Texts ==
    {<<"U", "b", "e", "r", " ", "a", "p", "p">>,
     <<"c", "o", "o", "k", "i", "n", "g">>,
     <<"k", "u", "b", "e", "r", "n", "e", "t", "e", "s">>,
     <<"f", "o", "o", "d", " ", "d", "e", "l", "i", "v", "e", "r", "y">>,
     <<"U", "P", "I", " ", "a", "p", "i">>,
     <<"s", "t", "u", "d", "e", "n", "t", "s">>}

CommentVolumes == {0, 19, 20, 49, 50, 99, 100, 150}

Severities == {"High", "Medium", "Low", "Critical"}

\* the stateless services hold no state of their own
InitMarket ==
    /\ FRUSTRATION_WEIGHTS = DeclaredWeights
    /\ calc = NoCall
    /\ churn = NoCall
    /\ call = NoCall
    /\ prio = NoCall
    /\ sim = NoCall

EstimateReach ==
    /\ call = NoCall
    /\ \E problem_statement \in Texts, target_users \in Texts,
          frequency \in 1..MaxFrequency, num_comments \in CommentVolumes,
          severity \in Severities :
        call' = [op |-> "estimate_reach",
                 problem_statement |-> problem_statement,
                 target_users |-> target_users,
                 frequency |-> frequency,
                 num_comments |-> num_comments,
                 severity |-> severity,
                 ret |-> estimate_reach(problem_statement, target_users,
                                        frequency, num_comments, severity)]
    /\ UNCHANGED <<churnVars, prio, sim>>

NextMarket == EstimateReach

SpecMarket == InitMarket /\ [][NextMarket]_vars

(***************************************************************************)
(* Claims about the market sizing engine                                   *)
(***************************************************************************)
ReachReturned == call.op = "estimate_reach"

\* C9: the penetration rate is base_rate(frequency) x
\* comment_multiplier(comments) x severity_multiplier(severity) capped at
\* 0.50, for every frequency >= 1, comment volume >= 0 and severity (known
\* or not); it never exceeds 0.50 and the reach never exceeds half of the
\* category's active_users.
C9_Product ==
    LET f == call.frequency
        c == call.num_comments
        s == call.severity
        b == CASE f >= 10 -> 40 [] f >= 5 /\ f < 10 -> 30
               [] f >= 3 /\ f < 5 -> 20 [] f < 3 -> 10
        cm == CASE c >= 100 -> 12 [] c >= 50 /\ c < 100 -> 11
                [] c >= 20 /\ c < 50 -> 10 [] c < 20 -> 8
        sm == IF s = "High" THEN 12 ELSE IF s = "Low" THEN 7 ELSE 10
    IN b * cm * sm

C9_PenetrationCapped ==
    ReachReturned =>
        LET j == call.ret.justification IN
        /\ j.penetration_rate * 10 =
               IF C9_Product <= 5000 THEN C9_Product ELSE 5000
        /\ j.penetration_rate <= 500
        /\ 2 * call.ret.reach <= MARKET_DATA[j.category].active_users
        /\ call.ret.reach >= 0

\* the product of the three factors exceeds 0.50 and is cut back
C9_Witness ==
    /\ ReachReturned
    /\ call.frequency >= 10
    /\ call.num_comments >= 100
    /\ call.severity = "High"
    /\ call.ret.justification.penetration_rate = 500
    /\ 2 * call.ret.reach = MARKET_DATA[call.ret.justification.category].active_users

\* C10: for a fixed category, comment volume and severity the penetration
\* rate and the reach are non-decreasing in the frequency, across the tier
\* boundaries 2 -> 3 -> 5 -> 10 too.
C10_MonotoneInFrequency ==
    ReachReturned =>
        \A f1 \in 1..call.frequency :
            LET lower == estimate_reach(call.problem_statement,
                                        call.target_users, f1,
                                        call.num_comments, call.severity)
            IN /\ lower.justification.penetration_rate
                      <= call.ret.justification.penetration_rate
               /\ lower.reach <= call.ret.reach

\* a frequency in the top tier, strictly above what frequency 2, 3 and 5 give
C10_Witness ==
    /\ ReachReturned
    /\ call.frequency = 10
    /\ call.severity = "Low"
    /\ call.num_comments = 0
    /\ \A f1 \in {2, 4, 9} :
           _calculate_penetration_rate(f1, 0, "Low")
               < call.ret.justification.penetration_rate

\* identify_market_category called on its own
CategoryTexts ==
    Texts \cup {<<"U", "B", "E", "R", " ", "A", "P", "P">>, <<"o", "r", "d", "e", "r">>,
                <<"f", "o", "o", "d">>, <<"O", "n", "l", "i", "n", "e", " ", "S", "h", "o", "p", "p", "i", "n", "g">>,
                <<>>}

\* every declared keyword, as a text of its own
KeywordTexts ==
    UNION {Range(category_keywords[i].keywords) :
              i \in DOMAIN category_keywords}

CategoryInputs ==
    (CategoryTexts \X CategoryTexts) \cup (KeywordTexts \X {<<>>})

InitCategory == InitMarket

IdentifyMarketCategory ==
    /\ call = NoCall
    /\ \E input \in CategoryInputs :
        LET problem_statement == input[1]
            target_users == input[2]
        IN
        call' = [op |-> "identify_market_category",
                 problem_statement |-> problem_statement,
                 target_users |-> target_users,
                 ret |-> identify_market_category(problem_statement,
                                                  target_users)]
    /\ UNCHANGED <<churnVars, prio, sim>>

NextCategory == IdentifyMarketCategory

SpecCategory == InitCategory /\ [][NextCategory]_vars

CategoryReturned == call.op = "identify_market_category"

\* C17: identify_market_category lower-cases the combined problem + target
\* text and returns the first category, in the declared order cab_booking,
\* qcommerce, ecommerce, fintech, food_delivery, developer_tools, with a
\* keyword occurring as a substring of the text, default if there is none;
\* the result depends on the text only.
C17_DeclaredOrder ==
    <<"cab_booking", "qcommerce", "ecommerce", "fintech", "food_delivery",
      "developer_tools">>

C17_Text(problem_statement, target_users) ==
    Lower(problem_statement \o <<" ">> \o target_users)

C17_Expected(text) ==
    LET hits == {i \in DOMAIN C17_DeclaredOrder :
                    \E j \in DOMAIN category_keywords[i].keywords :
                        IsSubstring(category_keywords[i].keywords[j], text)}
    IN IF hits = {} THEN "default"
       ELSE C17_DeclaredOrder[CHOOSE i \in hits : \A h \in hits : i <= h]

C17_FirstMatchingCategory ==
    /\ \A i \in DOMAIN category_keywords :
           category_keywords[i].category = C17_DeclaredOrder[i]
    /\ Len(category_keywords) = Len(C17_DeclaredOrder)
    /\ CategoryReturned =>
           LET text == C17_Text(call.problem_statement, call.target_users)
           IN /\ call.ret = C17_Expected(text)
              /\ \A p \in CategoryTexts, t \in CategoryTexts :
                     C17_Text(p, t) = text =>
                         identify_market_category(p, t) = call.ret

\* "food delivery" for students: a keyword of qcommerce (delivery) and one
\* of food_delivery occur, and the category declared first is returned
C17_Witness ==
    /\ CategoryReturned
    /\ call.problem_statement = <<"f", "o", "o", "d", " ", "d", "e", "l", "i", "v", "e", "r", "y">>
    /\ call.target_users = <<"s", "t", "u", "d", "e", "n", "t", "s">>
    /\ IsSubstring(<<"f", "o", "o", "d", " ", "d", "e", "l", "i", "v", "e", "r", "y">>, C17_Text(call.problem_statement, call.target_users))
    /\ call.ret = "qcommerce"

\* a keyword lying across the blank that joins problem and target
C17_AcrossTheBlank ==
    /\ CategoryReturned
    /\ call.problem_statement = <<"o", "r", "d", "e", "r">>
    /\ call.target_users = <<"f", "o", "o", "d">>
    /\ call.ret = "food_delivery"

\* C29: every keyword declared for a market category decides the lookup
\* for its own category: for each category C and each keyword k of C,
\* identify_market_category applied to a text consisting of exactly k
\* returns C (no keyword is shadowed by a keyword of an earlier category
\* that occurs inside it: 'kubernetes' resolves to developer_tools and
\* 'food delivery' to food_delivery).
C29_KeywordDecidesOwnCategory ==
    (CategoryReturned /\ call.target_users = <<>>) =>
        \A i \in DOMAIN category_keywords :
            \A j \in DOMAIN category_keywords[i].keywords :
                call.problem_statement = category_keywords[i].keywords[j]
                    => call.ret = category_keywords[i].category

(***************************************************************************)
(*                         PRIORITIZATION SERVICE                          *)
(* A response of the reasoning collaborator is one of                      *)
(*   [kind |-> "raise"]       messages.create raised (unreachable, timeout)*)
(*   [kind |-> "empty"]       response.content is an empty list            *)
(*   [kind |-> "unparsable"]  the text holds no JSON object json.loads     *)
(*                            accepts                                      *)
(*   [kind |-> "json", data |-> d]  the text holds the JSON object d, a    *)
(*                            function from the keys present to values     *)
(* A JSON value is [t |-> "num", v |-> n] or [t |-> "str", s |-> text].    *)
(***************************************************************************)
Num(n) == [t |-> "num", v |-> n, s |-> ""]
Str(x) == [t |-> "str", v |-> 0, s |-> x]

\* data.get(key, default)
Get(data, key, default) == IF key \in DOMAIN data THEN data[key] ELSE default

OpportunityCategory == {"underserved", "overserved", "wellserved"}

\* JTBDScore(...): pydantic validates importance and satisfaction into
\* [0,10] (ge=0, le=10), coerces the floats and the enum; opportunity_score
\* carries no constraint
JTBDScoreValid(importance, satisfaction, opportunity_score, category) ==
    /\ importance.t = "num" /\ satisfaction.t = "num"
    /\ opportunity_score.t = "num"
    /\ importance.v >= 0 /\ importance.v <= 100
    /\ satisfaction.v >= 0 /\ satisfaction.v <= 100
    /\ category.t = "str" /\ category.s \in OpportunityCategory

\* the except branch of _calculate_jtbd_score
JTBDFallback ==
    [raised |-> None, importance |-> 70, satisfaction |-> 30,
     opportunity_score |-> 110, category |-> "underserved",
     reasoning |-> "Default scoring due to parsing error"]

\* the try branch: the fields echoed from the parsed object, each with its
\* own default; float(...) of a non-number, OpportunityCategory(...) of an
\* unknown name and the model's validation all raise inside the try
JTBDFromData(data) ==
    LET importance == Get(data, "importance", Num(50))
        satisfaction == Get(data, "satisfaction", Num(50))
        opportunity_score == Get(data, "opportunity_score", Num(100))
        category == Get(data, "category", Str("wellserved"))
    IN IF JTBDScoreValid(importance, satisfaction, opportunity_score, category)
       THEN [raised |-> None, importance |-> importance.v,
             satisfaction |-> satisfaction.v,
             opportunity_score |-> opportunity_score.v,
             category |-> category.s,
             reasoning |-> "from response"]
       ELSE JTBDFallback

\* _calculate_jtbd_score: the call and the read of content[0] stand before
\* the try
_calculate_jtbd_score(response) ==
    CASE response.kind = "raise" -> [raised |-> "APIError"]
      [] response.kind = "empty" -> [raised |-> "IndexError"]
      [] response.kind = "unparsable" -> JTBDFallback
      [] response.kind = "json" -> JTBDFromData(response.data)

(***************************************************************************)
(* Inputs of JTBD scoring                                                  *)
(***************************************************************************)
OptionalFields(keys, values) ==
    UNION {[present -> values] : present \in SUBSET keys}

JTBDNumbers == {Num(0), Num(50), Num(85), Num(100), Num(110), Str("high")}
JTBDScores == {Num(0), Num(30), Num(100), Num(120), Num(250)}
JTBDCategories == {Str("underserved"), Str("wellserved"), Str("overserved"),
                   Str("critical")}

JTBDData ==
    {d \in OptionalFields({"importance", "satisfaction",
                           "opportunity_score", "category"},
                          JTBDNumbers \cup JTBDScores \cup JTBDCategories) :
        /\ "importance" \in DOMAIN d => d["importance"] \in JTBDNumbers
        /\ "satisfaction" \in DOMAIN d => d["satisfaction"] \in JTBDNumbers
        /\ "opportunity_score" \in DOMAIN d
               => d["opportunity_score"] \in JTBDScores
        /\ "category" \in DOMAIN d => d["category"] \in JTBDCategories}

JTBDResponses ==
    {[kind |-> "raise"], [kind |-> "empty"], [kind |-> "unparsable"]}
    \cup {[kind |-> "json", data |-> d] : d \in JTBDData}

InitJTBD == InitMarket

CalculateJTBDScore ==
    /\ call = NoCall
    /\ \E response \in JTBDResponses :
        call' = [op |-> "_calculate_jtbd_score", response |-> response,
                 ret |-> _calculate_jtbd_score(response)]
    /\ UNCHANGED <<churnVars, prio, sim>>

NextJTBD == CalculateJTBDScore

SpecJTBD == InitJTBD /\ [][NextJTBD]_vars

(***************************************************************************)
(* Claims about JTBD scoring                                               *)
(***************************************************************************)
JTBDReturned == call.op = "_calculate_jtbd_score" /\ call.ret.raised = None

\* C4: every JTBDScore returned (all fields parsed, some fields filled
\* from the per-field defaults, or the parse-failure fallback) satisfies
\* opportunity_score = importance + max(importance - satisfaction, 0),
\* lies in [0,20], and is underserved iff the score > 10, wellserved iff
\* 8 <= score <= 10, overserved iff score < 8.
C4_JTBDScoreConsistent ==
    JTBDReturned =>
        LET r == call.ret IN
        /\ r.opportunity_score =
               r.importance
               + (IF r.importance - r.satisfaction > 0
                  THEN r.importance - r.satisfaction ELSE 0)
        /\ r.opportunity_score >= 0 /\ r.opportunity_score <= 200
        /\ (r.category = "underserved") <=> (r.opportunity_score > 100)
        /\ (r.category = "wellserved")
               <=> (r.opportunity_score >= 80 /\ r.opportunity_score <= 100)
        /\ (r.category = "overserved") <=> (r.opportunity_score < 80)

(***************************************************************************)
(* RICE scoring                                                            *)
(***************************************************************************)

\* _estimate_impact, in hundredths
blocking_words ==
    <<<<"c", "a", "n", "'", "t">>,
      <<"u", "n", "a", "b", "l", "e">>,
      <<"i", "m", "p", "o", "s", "s", "i", "b", "l", "e">>,
      <<"b", "l", "o", "c", "k", "s">>,
      <<"p", "r", "e", "v", "e", "n", "t", "s">>,
      <<"s", "t", "u", "c", "k">>>>

\* (mutation: the product returned as it is, no clamp)
_estimate_impact_NoClamp(severity, importance, quote) ==
    LET base_impact == CASE severity = "High" -> 200
                         [] severity = "Medium" -> 100
                         [] severity = "Low" -> 50
                         [] OTHER -> 100
        importance_multiplier == IF importance >= 90 THEN 15
                                 ELSE IF importance >= 70 THEN 12
                                 ELSE 10
        quote_multiplier ==
            IF \E i \in DOMAIN blocking_words :
                   IsSubstring(blocking_words[i], Lower(quote))
            THEN 12 ELSE 10
    IN (base_impact * importance_multiplier * quote_multiplier) \div 100

_estimate_impact(severity, importance, quote) ==
    LET base_impact == CASE severity = "High" -> 200
                         [] severity = "Medium" -> 100
                         [] severity = "Low" -> 50
                         [] OTHER -> 100
        importance_multiplier == IF importance >= 90 THEN 15
                                 ELSE IF importance >= 70 THEN 12
                                 ELSE 10
        quote_multiplier ==
            IF \E i \in DOMAIN blocking_words :
                   IsSubstring(blocking_words[i], Lower(quote))
            THEN 12 ELSE 10
        impact == (base_impact * importance_multiplier * quote_multiplier)
                      \div 100
    IN Min(Max(impact, 25), 300)

\* _estimate_confidence, in 1/300 (frequency confidence in hundredths times
\* min(num_sources / 3, 1) in thirds)
_estimate_confidence(frequency, num_sources, severity) ==
    LET freq_conf == IF frequency >= 10 THEN 95
                     ELSE IF frequency >= 5 THEN 85
                     ELSE IF frequency >= 3 THEN 75
                     ELSE 60
        source_multiplier == Min(num_sources, 3)
        severity_boost == IF severity = "High" THEN 15 ELSE 0
    IN Min(freq_conf * source_multiplier + severity_boost, 300)

\* _estimate_effort: (total, breakdown), in hundredths of a person-month.
\* sum(breakdown.values()) is evaluated whether or not total_effort is
\* present, and raises inside the try on a value that is no number.
EffortFallback ==
    [total |-> Num(200),
     breakdown |-> [ui_frontend |-> 50, backend_api |-> 100,
                    infrastructure |-> 30, testing_qa |-> 20]]

EffortFromData(data) ==
    LET ui == Get(data, "ui_frontend", Num(50))
        be == Get(data, "backend_api", Num(100))
        inf == Get(data, "infrastructure", Num(30))
        qa == Get(data, "testing_qa", Num(30))
    IN IF ui.t = "num" /\ be.t = "num" /\ inf.t = "num" /\ qa.t = "num"
       THEN [total |-> Get(data, "total_effort",
                           Num(ui.v + be.v + inf.v + qa.v)),
             breakdown |-> [ui_frontend |-> ui.v, backend_api |-> be.v,
                            infrastructure |-> inf.v, testing_qa |-> qa.v]]
       ELSE EffortFallback

_estimate_effort(response) ==
    IF response.kind = "json" THEN EffortFromData(response.data)
    ELSE EffortFallback

\* rice_score = (reach * impact * confidence) / effort, truncated to a whole
\* number: with a = reach * impact (whole, reach being a multiple of 1000)
\* it is a * confidence / (3 * effort), divided in two parts so that no
\* intermediate product leaves the 32-bit range
RiceQuotient(reach, impact, confidence, effort) ==
    LET a == (reach \div 100) * impact
        d == 3 * effort
    IN (a \div d) * confidence + ((a % d) * confidence) \div d

\* rice_score = (reach * impact * confidence) / effort if effort > 0 else 0
RiceScoreValue(reach, impact, confidence, effort) ==
    IF effort > 0 THEN RiceQuotient(reach, impact, confidence, effort) ELSE 0

\* RICEScore(...): effort is declared gt=0
RICEScoreValid(effort) == effort > 0

\* the comment volume _calculate_rice_score passes to estimate_reach
num_comments_default == 50
\* the number of sources it passes to _estimate_confidence
num_sources_default == 2

\* _calculate_rice_score; a pain point carries its frequency, severity and
\* quote (the three keys the research service always sets)
_calculate_rice_score(pain_point, problem_statement, target_users, importance, effort_response) ==
    LET frequency == pain_point.frequency
        severity == pain_point.severity
        reach == estimate_reach(problem_statement, target_users, frequency,
                                num_comments_default, severity).reach
        impact == _estimate_impact(severity, importance, pain_point.quote)
        confidence == _estimate_confidence(frequency, num_sources_default,
                                           severity)
        est == _estimate_effort(effort_response)
    IN IF est.total.t # "num" THEN [raised |-> "TypeError"]
       ELSE LET effort == est.total.v
                rice_score == RiceScoreValue(reach, impact, confidence, effort)
            IN IF ~RICEScoreValid(effort)
               THEN [raised |-> "ValidationError"]
               ELSE [raised |-> None, reach |-> reach, impact |-> impact,
                     confidence |-> confidence, effort |-> effort,
                     effort_breakdown |-> est.breakdown,
                     rice_score |-> rice_score]

(***************************************************************************)
(* Inputs of RICE scoring                                                  *)
(***************************************************************************)
Quotes ==
    {<<"I", " ", "c", "a", "n", "'", "t", " ", "f", "i", "n", "d", " ", "t", "i", "m", "e", " ", "t", "o", " ", "c", "o", "o", "k">>,
     <<"T", "o", "o", " ", "s", "l", "o", "w">>,
     <<"S", "T", "U", "C", "K", " ", "a", "g", "a", "i", "n">>}

PainPointFrequencies == {1, 3, 5, 10}

PainPoints ==
    [frequency : PainPointFrequencies, severity : Severities, quote : Quotes]

Importances == {50, 70, 90}

EffortData ==
    {<<>>,
     [total_effort |-> Num(300), ui_frontend |-> Num(50),
      backend_api |-> Num(150), infrastructure |-> Num(50),
      testing_qa |-> Num(50)],
     [total_effort |-> Num(50)],
     [total_effort |-> Num(0)],
     [total_effort |-> Num(-100)],
     [total_effort |-> Str("3 months")],
     [ui_frontend |-> Str("small")],
     [ui_frontend |-> Num(0), backend_api |-> Num(0),
      infrastructure |-> Num(0), testing_qa |-> Num(0)]}

EffortResponses ==
    {[kind |-> "raise"], [kind |-> "empty"], [kind |-> "unparsable"]}
    \cup {[kind |-> "json", data |-> d] : d \in EffortData}

ProblemTexts == {<<"U", "b", "e", "r", " ", "a", "p", "p">>,
                 <<"U", "P", "I", " ", "a", "p", "i">>,
                 <<"s", "t", "u", "d", "e", "n", "t", "s">>}

InitRICE == InitMarket

CalculateRICEScore ==
    /\ call = NoCall
    /\ \E pain_point \in PainPoints, problem_statement \in ProblemTexts,
          importance \in Importances, effort_response \in EffortResponses :
        call' = [op |-> "_calculate_rice_score",
                 pain_point |-> pain_point,
                 problem_statement |-> problem_statement,
                 importance |-> importance,
                 effort_response |-> effort_response,
                 effort |-> _estimate_effort(effort_response).total,
                 ret |-> _calculate_rice_score(pain_point, problem_statement,
                                               <<>>, importance,
                                               effort_response)]
    /\ UNCHANGED <<churnVars, prio, sim>>

NextRICE == CalculateRICEScore

SpecRICE == InitRICE /\ [][NextRICE]_vars

(***************************************************************************)
(* Claims about RICE scoring                                               *)
(***************************************************************************)
RICECalled == call.op = "_calculate_rice_score"

\* C5: whenever the effort obtained from the collaborator is <= 0,
\* _calculate_rice_score yields a RICEScore whose rice_score is exactly 0
\* and raises no exception of any kind.
C5_NonPositiveEffortGivesZero ==
    (RICECalled /\ call.effort.t = "num" /\ call.effort.v <= 0) =>
        /\ call.ret.raised = None
        /\ call.ret.rice_score = 0

\* _estimate_impact called on its own
ImpactQuotes ==
    Quotes \cup {<<>>, <<"I", "t", " ", "b", "l", "o", "c", "k", "s", " ", "m", "e">>,
                 <<"U", "n", "a", "b", "l", "e", " ", "t", "o", " ", "p", "a", "y">>}

ImpactImportances == {0, 50, 69, 70, 89, 90, 100}

EstimateImpact ==
    /\ call = NoCall
    /\ \E severity \in Severities, importance \in ImpactImportances,
          quote \in ImpactQuotes :
        call' = [op |-> "_estimate_impact",
                 severity |-> severity,
                 importance |-> importance,
                 quote |-> quote,
                 ret |-> _estimate_impact(severity, importance, quote)]
    /\ UNCHANGED <<churnVars, prio, sim>>

InitImpact == InitMarket

NextImpact == EstimateImpact

SpecImpact == InitImpact /\ [][NextImpact]_vars

ImpactReturned == call.op = "_estimate_impact"

\* C12: _estimate_impact returns severity_base x importance_multiplier x
\* quote_multiplier (High 2.0 / Medium 1.0 / Low 0.5 / unknown 1.0;
\* importance >= 9 -> 1.5, >= 7 -> 1.2, else 1.0; 1.2 iff the lower-cased
\* quote contains a blocking term) clamped into [0.25, 3.0], so the result
\* is always within [0.25, 3.0].
C12_Product ==
    LET sev == IF call.severity = "High" THEN 200
               ELSE IF call.severity = "Low" THEN 50 ELSE 100
        imp == IF call.importance >= 90 THEN 150
               ELSE IF call.importance >= 70 THEN 120 ELSE 100
        blocking == \E w \in {<<"c", "a", "n", "'", "t">>, <<"u", "n", "a", "b", "l", "e">>,
                               <<"i", "m", "p", "o", "s", "s", "i", "b", "l", "e">>, <<"b", "l", "o", "c", "k", "s">>,
                               <<"p", "r", "e", "v", "e", "n", "t", "s">>, <<"s", "t", "u", "c", "k">>} :
                        IsSubstring(w, Lower(call.quote))
        q == IF blocking THEN 120 ELSE 100
    IN sev * imp * q

C12_ImpactClamped ==
    ImpactReturned =>
        /\ call.ret >= 25 /\ call.ret <= 300
        /\ call.ret * 10000 =
               IF C12_Product > 3000000 THEN 3000000
               ELSE IF C12_Product < 250000 THEN 250000
               ELSE C12_Product

\* High severity, importance 9 and an upper-case blocking term: 3.6 cut
\* back to 3.0
C12_Witness ==
    /\ ImpactReturned
    /\ call.severity = "High"
    /\ call.importance = 90
    /\ call.quote = <<"S", "T", "U", "C", "K", " ", "a", "g", "a", "i", "n">>
    /\ C12_Product = 3600000
    /\ call.ret = 300

\* C11: a pain point of severity High and frequency 10 scored through
\* _calculate_rice_score, which supplies the comment volume 50: the
\* factors are 0.40 x 1.1 x 1.2 = 0.528, cut back to the cap 0.50, so
\* reach = floor(0.50 x the category's active_users).
C11_HighFrequent ==
    /\ RICECalled
    /\ call.ret.raised = None
    /\ call.pain_point.severity = "High"
    /\ call.pain_point.frequency = 10

C11_Category == identify_market_category(call.problem_statement, <<>>)

C11_ReachAtCap ==
    C11_HighFrequent =>
        /\ 2 * call.ret.reach = MARKET_DATA[C11_Category].active_users
        /\ comment_multiplier(num_comments_default) = 11
        /\ _calculate_penetration_rate(10, num_comments_default, "High") = 500

\* C11 as stated: the penetration rate used is 0.40 x 1.0 x 1.2 = 0.48 and
\* reach = floor(0.48 x the category's active_users).
C11_ReachAt048 ==
    C11_HighFrequent =>
        call.ret.reach = 48 * (MARKET_DATA[C11_Category].active_users \div 100)

\* such a pain point scored for the cab booking market: 25,000,000 users
C11_Witness ==
    /\ C11_HighFrequent
    /\ C11_Category = "cab_booking"
    /\ call.ret.reach = 25000000

(***************************************************************************)
(* Persona alignment                                                       *)
(***************************************************************************)
IsSpace(c) == c = " "

\* str.split(): the maximal runs of non-blank characters
RECURSIVE SplitFrom(_, _, _)
SplitFrom(text, i, word) ==
    IF i > Len(text)
    THEN IF word = <<>> THEN <<>> ELSE <<word>>
    ELSE IF IsSpace(text[i])
         THEN (IF word = <<>> THEN <<>> ELSE <<word>>)
              \o SplitFrom(text, i + 1, <<>>)
         ELSE SplitFrom(text, i + 1, Append(word, text[i]))

Split(text) == SplitFrom(text, 1, <<>>)

\* (mutation: every word of the text, not the first five)
FirstFive_All(words) == SubSeq(words, 1, Len(words))

\* words[:5]
FirstFive(words) == SubSeq(words, 1, Min(5, Len(words)))

\* ' '.join(texts)
RECURSIVE Join(_)
Join(texts) ==
    IF texts = <<>> THEN <<>>
    ELSE IF Len(texts) = 1 THEN Head(texts)
    ELSE Head(texts) \o <<" ">> \o Join(Tail(texts))

\* persona.get('name', 'Unknown')
PersonaName(persona) == IF persona.name = NoKey THEN "Unknown" ELSE persona.name

\* match_count: the declared pain points with one of their first five
\* words inside the description
MatchCount(persona, description_lower) ==
    Cardinality({i \in DOMAIN persona.pain_points :
        LET words == FirstFive(Split(Lower(persona.pain_points[i])))
        IN \E w \in DOMAIN words : IsSubstring(words[w], description_lower)})

Affinity(persona, description_lower) ==
    LET match_count == MatchCount(persona, description_lower)
        behaviors == Lower(Join(persona.behaviors))
        goals == Lower(Join(persona.goals))
        words == FirstFive(Split(description_lower))
    IN IF match_count >= 2 THEN "VERY HIGH"
       ELSE IF match_count >= 1 THEN "HIGH"
       ELSE IF \E w \in DOMAIN words :
                   IsSubstring(words[w], behaviors)
                   \/ IsSubstring(words[w], goals)
       THEN "MEDIUM"
       ELSE "LOW"

affinity_scores(aff) ==
    CASE aff = "VERY HIGH" -> 10 [] aff = "HIGH" -> 7
      [] aff = "MEDIUM" -> 4 [] aff = "LOW" -> 1 [] OTHER -> 0

\* the persona loop: affected grows by one name per persona that is not
\* LOW; affinities is a dict keyed by the persona's name, a later persona
\* of the same name overwriting the entry
RECURSIVE AlignLoop(_, _, _, _)
AlignLoop(personas, description_lower, affected, affinities) ==
    IF personas = <<>> THEN [affected |-> affected, affinities |-> affinities]
    ELSE LET persona == Head(personas)
             name == PersonaName(persona)
             aff == Affinity(persona, description_lower)
         IN AlignLoop(Tail(personas), description_lower,
                      IF aff = "LOW" THEN affected ELSE Append(affected, name),
                      [n \in DOMAIN affinities \cup {name} |->
                          IF n = name THEN aff ELSE affinities[n]])

RECURSIVE SumScores(_, _)
SumScores(affinities, names) ==
    IF names = {} THEN 0
    ELSE LET n == CHOOSE x \in names : TRUE
         IN affinity_scores(affinities[n]) + SumScores(affinities, names \ {n})

\* (mutation: no personas scored as one persona of LOW affinity)
_calculate_persona_alignment_EmptyAsLow(pain_point, personas) ==
    LET r == AlignLoop(personas, Lower(pain_point.description), <<>>, <<>>)
        total_weight == SumScores(r.affinities, DOMAIN r.affinities)
        n == Max(Len(personas), 1)
    IN [affected_personas |-> r.affected,
        coverage |-> (Len(r.affected) * 60) \div n,
        affinities |-> r.affinities,
        weight |-> (Max(total_weight, 1) * 60) \div n]

\* _calculate_persona_alignment; coverage and weight in sixtieths (whole
\* for every list of up to six personas)
_calculate_persona_alignment(pain_point, personas) ==
    IF personas = <<>>
    THEN [affected_personas |-> <<>>, coverage |-> 0, affinities |-> <<>>,
          weight |-> 0]
    ELSE LET r == AlignLoop(personas, Lower(pain_point.description), <<>>, <<>>)
             total_weight == SumScores(r.affinities, DOMAIN r.affinities)
         IN [affected_personas |-> r.affected,
             coverage |-> (Len(r.affected) * 60) \div Len(personas),
             affinities |-> r.affinities,
             weight |-> (total_weight * 60) \div Len(personas)]

(***************************************************************************)
(* Inputs of persona alignment: personas that share a name, personas       *)
(* without a name                                                          *)
(***************************************************************************)
MaxPersonas == 3

AlignPersonas ==
    {[name |-> "Asha",
      pain_points |-> <<<<"S", "l", "o", "w", " ", "a", "p", "p", " ", "l", "o", "a", "d", "i", "n", "g">>, <<"A", "p", "p", " ", "c", "r", "a", "s", "h", "e", "s", " ", "o", "f", "t", "e", "n">>>>,
      behaviors |-> <<<<"U", "s", "e", "s", " ", "p", "h", "o", "n", "e", " ", "d", "a", "i", "l", "y">>>>, goals |-> <<<<"S", "a", "v", "e", " ", "t", "i", "m", "e">>>>],
     [name |-> "Asha",
      pain_points |-> <<<<"H", "i", "g", "h", " ", "p", "r", "i", "c", "e", "s">>>>,
      behaviors |-> <<<<"C", "o", "m", "p", "a", "r", "e", "s", " ", "s", "l", "o", "w", " ", "a", "p", "p", "s">>>>, goals |-> <<<<"S", "a", "v", "e", " ", "m", "o", "n", "e", "y">>>>],
     [name |-> "Ravi",
      pain_points |-> <<<<"H", "i", "g", "h", " ", "p", "r", "i", "c", "e", "s">>>>,
      behaviors |-> <<<<"W", "a", "l", "k", "s", " ", "t", "o", " ", "w", "o", "r", "k">>>>, goals |-> <<<<"S", "a", "v", "e", " ", "m", "o", "n", "e", "y">>>>],
     [name |-> NoKey,
      pain_points |-> <<<<"S", "l", "o", "w", " ", "a", "p", "p", " ", "l", "o", "a", "d", "i", "n", "g">>>>,
      behaviors |-> <<>>, goals |-> <<>>],
     [name |-> NoKey,
      pain_points |-> <<>>,
      behaviors |-> <<<<"C", "o", "m", "p", "a", "r", "e", "s", " ", "s", "l", "o", "w", " ", "a", "p", "p", "s">>>>, goals |-> <<>>],
     [name |-> "Meera",
      pain_points |-> <<<<"W", "e", " ", "d", "o", " ", "n", "o", "t", " ", "l", "i", "k", "e", " ", "s", "u", "c", "h", " ", "s", "l", "o", "w", " ", "a", "p", "p">>>>,
      behaviors |-> <<>>, goals |-> <<<<"Q", "u", "i", "c", "k", " ", "r", "e", "f", "u", "n", "d", "s">>>>]}

AlignPainPoints ==
    {[description |-> <<"S", "l", "o", "w", " ", "a", "p", "p">>],
     [description |-> <<"L", "a", "t", "e", " ", "r", "e", "f", "u", "n", "d", "s">>],
     [description |-> <<"S", "o", "o", "n", " ", "t", "h", "e", "y", " ", "h", "a", "d", " ", "y", "e", "t", " ", "o", "n", "e", " ", "q", "u", "i", "c", "k", " ", "c", "r", "a", "s", "h">>]}

InitAlign == InitMarket

CalculatePersonaAlignment ==
    /\ call = NoCall
    /\ \E pain_point \in AlignPainPoints,
          personas \in SeqsUpTo(AlignPersonas, MaxPersonas) :
        call' = [op |-> "_calculate_persona_alignment",
                 pain_point |-> pain_point,
                 personas |-> personas,
                 ret |-> _calculate_persona_alignment(pain_point, personas)]
    /\ UNCHANGED <<churnVars, prio, sim>>

NextAlign == CalculatePersonaAlignment

SpecAlign == InitAlign /\ [][NextAlign]_vars

(***************************************************************************)
(* Claims about persona alignment                                          *)
(***************************************************************************)
AlignReturned == call.op = "_calculate_persona_alignment"

\* C15: for any non-empty list of personas, personas that share a name or
\* have none included, weight is the mean over all personas of the
\* per-persona affinity score (VERY HIGH 10, HIGH 7, MEDIUM 4, LOW 1) and
\* lies in [0,10]; coverage is the number of affected personas divided by
\* the number of personas and lies in [0,1].
C15_WeightIsMeanOverPersonas ==
    (AlignReturned /\ call.personas # <<>>) =>
        LET personas == call.personas
            description_lower == Lower(call.pain_point.description)
            score == [i \in DOMAIN personas |->
                LET aff == Affinity(personas[i], description_lower)
                IN IF aff = "VERY HIGH" THEN 10 ELSE IF aff = "HIGH" THEN 7
                   ELSE IF aff = "MEDIUM" THEN 4 ELSE 1]
            affected == {i \in DOMAIN personas :
                            Affinity(personas[i], description_lower) # "LOW"}
        IN /\ call.ret.weight * Len(personas)
                  = 60 * SumOver(score, DOMAIN personas)
           /\ call.ret.weight >= 0 /\ call.ret.weight <= 600
           /\ call.ret.coverage * Len(personas) = 60 * Cardinality(affected)
           /\ call.ret.coverage >= 0 /\ call.ret.coverage <= 60

\* C22: with m the number of the persona's declared pain points having one
\* of their first 5 words inside the lower-cased description, the persona's
\* affinity is VERY HIGH iff m >= 2, HIGH iff m = 1, otherwise MEDIUM iff one
\* of the first 5 words of the description occurs in its behaviors or goals
\* text, and LOW otherwise; a persona is listed in affected_personas exactly
\* when its affinity is not LOW.  (The affinity of a persona is read from
\* the returned affinities under its name when no later persona carries the
\* same name, and from affected_personas, which holds one entry per persona
\* that is not LOW, in the order of the personas.)
C22_AffinityClassified ==
    (AlignReturned /\ call.personas # <<>>) =>
        LET personas == call.personas
            d == Lower(call.pain_point.description)
            OneOfFirstFive(text, target) ==
                \E k \in 1..5 :
                    /\ k <= Len(Split(text))
                    /\ IsSubstring(Split(text)[k], target)
            m(persona) ==
                Cardinality({k \in DOMAIN persona.pain_points :
                    OneOfFirstFive(Lower(persona.pain_points[k]), d)})
            class(persona) ==
                IF m(persona) >= 2 THEN "VERY HIGH"
                ELSE IF m(persona) = 1 THEN "HIGH"
                ELSE IF \/ OneOfFirstFive(d, Lower(Join(persona.behaviors)))
                        \/ OneOfFirstFive(d, Lower(Join(persona.goals)))
                THEN "MEDIUM"
                ELSE "LOW"
            NotLow(persona) == class(persona) # "LOW"
            listed == SelectSeq(personas, NotLow)
        IN /\ call.ret.affected_personas
                  = [k \in DOMAIN listed |-> PersonaName(listed[k])]
           /\ \A i \in DOMAIN personas :
                  (\A j \in DOMAIN personas :
                       j > i => PersonaName(personas[j])
                                    # PersonaName(personas[i]))
                      => call.ret.affinities[PersonaName(personas[i])]
                             = class(personas[i])

\* a persona with two matching pain points is VERY HIGH and listed; one
\* whose only matching words are the sixth and seventh of its pain point,
\* and whose goals hold no word of the description, is LOW and not listed
C22_Witness ==
    /\ AlignReturned
    /\ Len(call.personas) = 2
    /\ call.personas[1].name = "Asha"
    /\ call.personas[2].name = "Meera"
    /\ Len(call.personas[1].pain_points) = 2
    /\ call.pain_point.description = <<"S", "l", "o", "w", " ", "a", "p", "p">>
    /\ call.ret.affinities["Asha"] = "VERY HIGH"
    /\ call.ret.affinities["Meera"] = "LOW"
    /\ call.ret.affected_personas = <<"Asha">>

\* C16 (second half): with no personas the alignment is affected_personas
\* empty, affinities empty, coverage 0 and weight 0.
C16_NoPersonas ==
    [affected_personas |-> <<>>, coverage |-> 0, affinities |-> <<>>,
     weight |-> 0]

(***************************************************************************)
(* Final score                                                             *)
(***************************************************************************)

\* Pow10Twentieth[n + 1] is the least whole number m with m >= 10^(n/20),
\* that is with m^20 >= 10^n, for n = 0 .. 186 (all that fit 32 bits)
Pow10Twentieth ==
    <<1, 2, 2, 2, 2, 2, 2, 3,
      3, 3, 4, 4, 4, 5, 6, 6,
      7, 8, 8, 9, 10, 12, 13, 15,
      16, 18, 20, 23, 26, 29, 32, 36,
      40, 45, 51, 57, 64, 71, 80, 90,
      100, 113, 126, 142, 159, 178, 200, 224,
      252, 282, 317, 355, 399, 447, 502, 563,
      631, 708, 795, 892, 1000, 1123, 1259, 1413,
      1585, 1779, 1996, 2239, 2512, 2819, 3163, 3549,
      3982, 4467, 5012, 5624, 6310, 7080, 7944, 8913,
      10000, 11221, 12590, 14126, 15849, 17783, 19953, 22388,
      25119, 28184, 31623, 35482, 39811, 44669, 50119, 56235,
      63096, 70795, 79433, 89126, 100000, 112202, 125893, 141254,
      158490, 177828, 199527, 223873, 251189, 281839, 316228, 354814,
      398108, 446684, 501188, 562342, 630958, 707946, 794329, 891251,
      1000000, 1122019, 1258926, 1412538, 1584894, 1778280, 1995263, 2238722,
      2511887, 2818383, 3162278, 3548134, 3981072, 4466836, 5011873, 5623414,
      6309574, 7079458, 7943283, 8912510, 10000000, 11220185, 12589255, 14125376,
      15848932, 17782795, 19952624, 22387212, 25118865, 28183830, 31622777, 35481339,
      39810718, 44668360, 50118724, 56234133, 63095735, 70794579, 79432824, 89125094,
      100000000, 112201846, 125892542, 141253755, 158489320, 177827942, 199526232, 223872114,
      251188644, 281838294, 316227767, 354813390, 398107171, 446683593, 501187234, 562341326,
      630957345, 707945785, 794328235, 891250939, 1000000000, 1122018455, 1258925412, 1412537545,
      1584893193, 1778279411, 1995262315>>
\* math.log10(x) * 20 for a whole x >= 1, truncated to a whole number:
\* the largest n with 10^(n/20) <= x
Log10Times20(x) ==
    Cardinality({n \in DOMAIN Pow10Twentieth : Pow10Twentieth[n] <= x}) - 1

\* round(x / d) for d > 0 (no tie occurs in _calculate_final_score: the
\* numerator there is even and the denominator's half is odd)
RoundDiv(x, d) == (2 * x + d) \div (2 * d)

\* rice_normalized, in hundredths
RiceNormalized(rice_score) ==
    Min(Log10Times20(Max(rice_score, 1)) * 100, 10000)

\* (mutation: the cap of the normalized RICE score dropped)
_calculate_final_score_NoCap(opportunity_score, rice_score, weight) ==
    RoundDiv(12 * (opportunity_score * 50)
             + 12 * (Log10Times20(Max(rice_score, 1)) * 100)
             + 2 * (weight * 50), 30)

\* _calculate_final_score, in hundredths: jtbd_normalized and
\* rice_normalized in hundredths, persona_normalized in 1/300, the weighted
\* sum over 30 rounded to two decimals
_calculate_final_score(opportunity_score, rice_score, weight) ==
    LET jtbd_normalized == opportunity_score * 50
        rice_normalized == RiceNormalized(rice_score)
        persona_normalized == weight * 50
    IN RoundDiv(12 * jtbd_normalized + 12 * rice_normalized
                + 2 * persona_normalized, 30)

(***************************************************************************)
(* Inputs of the final score                                               *)
(***************************************************************************)
OpportunityScores == {0, 55, 100, 110, 150, 200}
RiceScores == {0, 1, 9, 10, 50, 99, 100, 1000, 31622, 31623, 99999, 100000,
               1000000, 10000000, 2000000000}
PersonaWeights == {0, 60, 140, 240, 420, 600}

InitFinal == InitMarket

CalculateFinalScore ==
    /\ call = NoCall
    /\ \E opportunity_score \in OpportunityScores, rice_score \in RiceScores,
          weight \in PersonaWeights :
        call' = [op |-> "_calculate_final_score",
                 opportunity_score |-> opportunity_score,
                 rice_score |-> rice_score,
                 weight |-> weight,
                 ret |-> _calculate_final_score(opportunity_score, rice_score,
                                                weight)]
    /\ UNCHANGED <<churnVars, prio, sim>>

NextFinal == CalculateFinalScore

SpecFinal == InitFinal /\ [][NextFinal]_vars

(***************************************************************************)
(* Claims about the final score                                            *)
(***************************************************************************)
FinalReturned == call.op = "_calculate_final_score"

\* the exponent k of a rice score 10^k, and -1 for any other score
C8_PowerOfTen(r) ==
    IF \E k \in 0..9 : r = 10^k THEN CHOOSE k \in 0..9 : r = 10^k ELSE -1

C25_CapAtTenMillion ==
    FinalReturned =>
        LET o == call.opportunity_score
            w == call.weight
        IN /\ call.rice_score < 10000000
                  => /\ RiceNormalized(call.rice_score) < 10000
                     /\ call.ret < _calculate_final_score(o, 10000000, w)
           /\ call.rice_score = 1000000
                  => /\ RiceNormalized(100000) < RiceNormalized(1000000)
                     /\ _calculate_final_score(o, 100000, w) < call.ret

(***************************************************************************)
(* prioritize_pain_points                                                  *)
(***************************************************************************)

\* _build_justification: the branch taken for why_top_priority and the
\* market data looked up for the problem
_build_justification(jtbd_score, rice_score, problem_statement, target_users) ==
    LET category == identify_market_category(problem_statement, target_users)
    IN [why_top_priority |->
            IF jtbd_score.opportunity_score > 150 THEN "underserved need"
            ELSE IF rice_score.rice_score > 1000000 THEN "exceptional RICE"
            ELSE "blended",
        market_data |-> [category |-> category,
                         active_users |-> MARKET_DATA[category].active_users,
                         market_size_musd |->
                             MARKET_DATA[category].market_size_musd]]

\* (mutation: an item placed before the items of equal score)
InsertByScore_BeforeEqual(sorted, pp) ==
    LET ahead == Cardinality({i \in DOMAIN sorted :
                                 sorted[i].final_score > pp.final_score})
    IN SubSeq(sorted, 1, ahead) \o <<pp>>
       \o SubSeq(sorted, ahead + 1, Len(sorted))

\* prioritized.sort(key=lambda x: x.final_score, reverse=True): list.sort
\* is stable, with reverse=True too, so an item goes behind every item
\* whose score is at least its own
InsertByScore(sorted, pp) ==
    LET ahead == Cardinality({i \in DOMAIN sorted :
                                 sorted[i].final_score >= pp.final_score})
    IN SubSeq(sorted, 1, ahead) \o <<pp>>
       \o SubSeq(sorted, ahead + 1, Len(sorted))

RECURSIVE SortInto(_, _)
SortInto(sorted, rest) ==
    IF rest = <<>> THEN sorted
    ELSE SortInto(InsertByScore(sorted, Head(rest)), Tail(rest))

SortByFinalScore(prioritized) == SortInto(<<>>, prioritized)

\* for rank, pp in enumerate(prioritized, 1): pp.priority_rank = rank
AssignRanks(prioritized) ==
    [i \in DOMAIN prioritized |->
        [prioritized[i] EXCEPT !.priority_rank = i]]

\* steps 3 to 5 of the loop body and the PrioritizedPainPoint built
PrioritizedPainPoint(idx, pain_point, jtbd_score, rice_score, personas, problem_statement, target_users) ==
    LET persona_alignment == _calculate_persona_alignment(pain_point, personas)
    IN [pain_point_id |-> idx,
        description |-> pain_point.description,
        original_severity |-> pain_point.severity,
        priority_rank |-> 0,
        final_score |-> _calculate_final_score(jtbd_score.opportunity_score,
                                               rice_score.rice_score,
                                               persona_alignment.weight),
        jtbd |-> jtbd_score,
        rice |-> rice_score,
        persona_alignment |-> persona_alignment,
        justification |-> _build_justification(jtbd_score, rice_score,
                                               problem_statement,
                                               target_users)]

(***************************************************************************)
(* Inputs of prioritize_pain_points                                        *)
(***************************************************************************)
MaxPainPoints == 3

PrioPainPoints ==
    {[description |-> <<"S", "l", "o", "w", " ", "a", "p", "p">>,
      quote |-> <<"I", " ", "c", "a", "n", "'", "t", " ", "b", "o", "o", "k">>,
      severity |-> "High", frequency |-> 10],
     [description |-> <<"E", "x", "p", "e", "n", "s", "i", "v", "e", " ", "r", "i", "d", "e", "s">>,
      quote |-> <<"T", "o", "o", " ", "c", "o", "s", "t", "l", "y">>,
      severity |-> "Low", frequency |-> 1]}

Persona1 ==
    [name |-> "Asha",
     pain_points |-> <<<<"S", "l", "o", "w", " ", "a", "p", "p", " ", "l", "o", "a", "d", "i", "n", "g", " ", "t", "i", "m", "e", "s">>,
                       <<"A", "p", "p", " ", "c", "r", "a", "s", "h", "e", "s", " ", "o", "n", " ", "p", "a", "y", "m", "e", "n", "t">>>>,
     behaviors |-> <<<<"U", "s", "e", "s", " ", "p", "h", "o", "n", "e", " ", "d", "a", "i", "l", "y">>>>,
     goals |-> <<<<"S", "a", "v", "e", " ", "t", "i", "m", "e">>>>]

Persona2 ==
    [name |-> "Ravi",
     pain_points |-> <<<<"H", "i", "g", "h", " ", "p", "r", "i", "c", "e", "s">>>>,
     behaviors |-> <<<<"C", "o", "m", "p", "a", "r", "e", "s", " ", "s", "l", "o", "w", " ", "a", "p", "p", "s">>>>,
     goals |-> <<<<"S", "a", "v", "e", " ", "m", "o", "n", "e", "y">>>>]

PersonaLists == {<<>>, <<Persona1>>, <<Persona1, Persona2>>}

PrioJTBDResponses ==
    {[kind |-> "raise"], [kind |-> "empty"], [kind |-> "unparsable"],
     [kind |-> "json",
      data |-> [importance |-> Num(90), satisfaction |-> Num(80),
                opportunity_score |-> Num(100),
                category |-> Str("wellserved")]]}

PrioEffortResponses ==
    {[kind |-> "raise"], [kind |-> "empty"], [kind |-> "unparsable"],
     [kind |-> "json", data |-> [total_effort |-> Num(0)]],
     [kind |-> "json", data |-> [total_effort |-> Num(50)]]}

PrioProblem == <<"C", "a", "b", " ", "b", "o", "o", "k", "i", "n", "g">>
PrioTargetUsers == <<"c", "o", "m", "m", "u", "t", "e", "r", "s">>

Idle == [pc |-> "idle"]

InitPrio ==
    /\ FRUSTRATION_WEIGHTS = DeclaredWeights
    /\ calc = NoCall
    /\ churn = NoCall
    /\ call = NoCall
    /\ prio = Idle
    /\ sim = NoCall

\* the call: an empty list returns at once, no collaborator called
Prioritize ==
    /\ prio.pc = "idle"
    /\ \E pain_points \in SeqsUpTo(PrioPainPoints, MaxPainPoints),
          personas \in PersonaLists :
        prio' = [pc |-> IF pain_points = <<>> THEN "returned" ELSE "jtbd",
                 pain_points |-> pain_points,
                 personas |-> personas,
                 idx |-> 0,
                 jtbd |-> None,
                 prioritized |-> <<>>,
                 collaborator_calls |-> 0,
                 unavailable |-> FALSE,   \* the effort request found the
                                          \* collaborator unavailable
                 error |-> None,
                 result |-> <<>>]
    /\ UNCHANGED <<churnVars, call, sim>>

\* step 1 of the loop body: the JTBD request and its response
JTBDResponse ==
    /\ prio.pc = "jtbd"
    /\ \E response \in PrioJTBDResponses :
        LET jtbd_score == _calculate_jtbd_score(response)
        IN prio' = IF jtbd_score.raised # None
                   THEN [prio EXCEPT !.pc = "raised",
                                     !.error = jtbd_score.raised,
                                     !.collaborator_calls = @ + 1]
                   ELSE [prio EXCEPT !.pc = "effort",
                                     !.jtbd = jtbd_score,
                                     !.collaborator_calls = @ + 1]
    /\ UNCHANGED <<churnVars, call, sim>>

\* step 2, up to the effort request and its response, then steps 3 to 5
\* and, after the last pain point, the sort and the ranks
EffortResponse ==
    /\ prio.pc = "effort"
    /\ \E response \in PrioEffortResponses :
        LET pain_point == prio.pain_points[prio.idx + 1]
            rice_score == _calculate_rice_score(pain_point, PrioProblem,
                                                PrioTargetUsers,
                                                prio.jtbd.importance, response)
            unavailable == prio.unavailable
                               \/ response.kind \in {"raise", "empty"}
        IN prio' =
            IF rice_score.raised # None
            THEN [prio EXCEPT !.pc = "raised", !.error = rice_score.raised,
                              !.collaborator_calls = @ + 1,
                              !.unavailable = unavailable]
            ELSE LET pp == PrioritizedPainPoint(prio.idx, pain_point,
                                                prio.jtbd, rice_score,
                                                prio.personas, PrioProblem,
                                                PrioTargetUsers)
                     prioritized == Append(prio.prioritized, pp)
                 IN IF prio.idx + 1 = Len(prio.pain_points)
                    THEN [prio EXCEPT
                            !.pc = "returned",
                            !.idx = @ + 1,
                            !.prioritized = prioritized,
                            !.collaborator_calls = @ + 1,
                            !.unavailable = unavailable,
                            !.result = AssignRanks(SortByFinalScore(prioritized))]
                    ELSE [prio EXCEPT
                            !.pc = "jtbd",
                            !.idx = @ + 1,
                            !.prioritized = prioritized,
                            !.collaborator_calls = @ + 1,
                            !.unavailable = unavailable]
    /\ UNCHANGED <<churnVars, call, sim>>

NextPrio == Prioritize \/ JTBDResponse \/ EffortResponse

SpecPrio == InitPrio /\ [][NextPrio]_vars

(***************************************************************************)
(* Claims about prioritize_pain_points                                     *)
(***************************************************************************)
PrioReturned == prio.pc = "returned"

\* C6: when the reasoning collaborator is unavailable (the call raises or
\* the content list is empty) during JTBD scoring or effort estimation,
\* prioritize_pain_points does not raise: the fixed defaults are
\* substituted and a complete ranked list is returned.
C6_UnavailableCollaboratorNeverRaises ==
    /\ ~(prio.pc = "raised" /\ prio.error \in {"APIError", "IndexError"})
    /\ (PrioReturned /\ prio.unavailable) =>
           /\ Len(prio.result) = Len(prio.pain_points)
           /\ \E i \in DOMAIN prio.result :
                  prio.result[i].rice.effort = 200

\* C7: the list returned is sorted by final_score in non-increasing order,
\* priority_rank is the 1-based position (1..N, each once, rank 1 on the
\* maximum), the list holds exactly the items scored, and two items of
\* equal final_score keep their order of the input list.
C7_SortedRankedStable ==
    PrioReturned =>
        LET result == prio.result
            N == Len(prio.pain_points)
        IN /\ Len(result) = N
           /\ \A i \in 1..N :
                /\ result[i].priority_rank = i
                /\ result[i].pain_point_id \in 0..(N - 1)
                /\ [result[i] EXCEPT !.priority_rank = 0]
                       = prio.prioritized[result[i].pain_point_id + 1]
                /\ result[1].final_score >= result[i].final_score
           /\ \A i, j \in 1..N :
                i < j =>
                    /\ result[i].pain_point_id # result[j].pain_point_id
                    /\ result[i].final_score >= result[j].final_score
                    /\ result[i].final_score = result[j].final_score
                           => result[i].pain_point_id < result[j].pain_point_id

\* three items returned: two of equal score, ranked behind an item that
\* came later in the input list
C7_Witness ==
    /\ PrioReturned
    /\ Len(prio.result) = 3
    /\ prio.result[1].pain_point_id = 2
    /\ prio.result[1].final_score > prio.result[2].final_score
    /\ prio.result[2].final_score = prio.result[3].final_score
    /\ prio.result[2].pain_point_id = 0
    /\ prio.result[3].pain_point_id = 1

\* C16: prioritize_pain_points with an empty pain-point list returns an
\* empty list, no collaborator called and nothing raised; with an empty
\* personas list _calculate_persona_alignment gives every pain point the
\* alignment affected_personas empty, affinities empty, coverage 0 and
\* weight 0.
C16_DegenerateInputsDefined ==
    /\ (prio.pc # "idle" /\ prio.pain_points = <<>>) =>
           /\ PrioReturned
           /\ prio.result = <<>>
           /\ prio.collaborator_calls = 0
           /\ prio.error = None
    /\ (prio.pc # "idle" /\ prio.personas = <<>>) =>
           /\ \A i \in DOMAIN prio.prioritized :
                  prio.prioritized[i].persona_alignment = C16_NoPersonas
           /\ \A i \in DOMAIN prio.result :
                  prio.result[i].persona_alignment = C16_NoPersonas

\* two pain points ranked for an empty personas list
C16_Witness ==
    /\ PrioReturned
    /\ prio.personas = <<>>
    /\ Len(prio.result) = 2
    /\ prio.result[1].persona_alignment.weight = 0
    /\ prio.result[2].persona_alignment.affected_personas = <<>>

\* an empty pain-point list answered at once
C16_EmptyListReturned ==
    /\ PrioReturned
    /\ prio.pain_points = <<>>
    /\ prio.result = <<>>
    /\ prio.collaborator_calls = 0

(***************************************************************************)
(*                          AI DECISION ENGINE                             *)
(* A JSON value of a decision response is a number, a string (a sequence   *)
(* of characters) or null.  chosen_option is a whole number; a            *)
(* context_adjustment is kept in hundredths.                               *)
(***************************************************************************)
JNum(n) == [t |-> "num", v |-> n, s |-> <<>>]
JStr(x) == [t |-> "str", v |-> 0, s |-> x]
JNull == [t |-> "null", v |-> 0, s |-> <<>>]

EmotionalState ==
    {"neutral", "satisfied", "hopeful", "frustrated", "annoyed", "angry",
     "delighted"}

\* _parse_emotional_state
state_map ==
    <<[key |-> <<"n", "e", "u", "t", "r", "a", "l">>, state |-> "neutral"],
      [key |-> <<"s", "a", "t", "i", "s", "f", "i", "e", "d">>, state |-> "satisfied"],
      [key |-> <<"h", "o", "p", "e", "f", "u", "l">>, state |-> "hopeful"],
      [key |-> <<"f", "r", "u", "s", "t", "r", "a", "t", "e", "d">>, state |-> "frustrated"],
      [key |-> <<"a", "n", "n", "o", "y", "e", "d">>, state |-> "annoyed"],
      [key |-> <<"a", "n", "g", "r", "y">>, state |-> "angry"],
      [key |-> <<"d", "e", "l", "i", "g", "h", "t", "e", "d">>, state |-> "delighted"]>>

_parse_emotional_state(state_str) ==
    LET k == Lower(state_str)
    IN IF \E i \in DOMAIN state_map : state_map[i].key = k
       THEN state_map[CHOOSE i \in DOMAIN state_map :
                          state_map[i].key = k].state
       ELSE "neutral"

\* float(text) for the texts the model uses: a run of digits with an
\* optional sign is its value, anything else raises ValueError
Digits == <<"0", "1", "2", "3", "4", "5", "6", "7", "8", "9">>
IsDigit(c) == \E d \in DOMAIN Digits : Digits[d] = c
DigitValue(c) == (CHOOSE d \in DOMAIN Digits : Digits[d] = c) - 1

RECURSIVE DigitsValue(_, _)
DigitsValue(text, acc) ==
    IF text = <<>> THEN acc
    ELSE DigitsValue(Tail(text), 10 * acc + DigitValue(Head(text)))

FloatOfString(text) ==
    LET signed == text # <<>> /\ Head(text) \in {"-", "+"}
        digits == IF signed THEN Tail(text) ELSE text
    IN IF digits = <<>> \/ \E i \in DOMAIN digits : ~IsDigit(digits[i])
       THEN [raised |-> "ValueError", v |-> 0]
       ELSE [raised |-> None,
             v |-> (IF signed /\ Head(text) = "-" THEN -100 ELSE 100)
                       * DigitsValue(digits, 0)]

\* float(result.get("context_adjustment", 0))
FloatOf(value) ==
    CASE value.t = "num" -> [raised |-> None, v |-> value.v]
      [] value.t = "str" -> FloatOfString(value.s)
      [] OTHER -> [raised |-> "TypeError", v |-> 0]

\* the except branch of _parse_decision_response
DecisionFallback(options) ==
    [raised |-> None, chosen_option_id |-> options[1].option_id,
     context_adjustment |-> 0, emotional_state |-> "neutral"]

\* the try branch: the statements in their order; JSONDecodeError, KeyError
\* and ValueError are caught, a TypeError and an AttributeError are not
DecisionFromData(data, options) ==
    LET chosen_option == Get(data, "chosen_option", JNum(1))
        chosen_idx == chosen_option.v - 1
        emotional_state == Get(data, "emotional_state", JStr(<<"n", "e", "u", "t", "r", "a", "l">>))
        adjustment == FloatOf(Get(data, "context_adjustment", JNum(0)))
    IN IF chosen_option.t # "num" THEN [raised |-> "TypeError"]
       ELSE IF emotional_state.t # "str" THEN [raised |-> "AttributeError"]
       ELSE IF adjustment.raised = "TypeError" THEN [raised |-> "TypeError"]
       ELSE IF adjustment.raised = "ValueError" THEN DecisionFallback(options)
       ELSE [raised |-> None,
             chosen_option_id |->
                 IF 0 <= chosen_idx /\ chosen_idx < Len(options)
                 THEN options[chosen_idx + 1].option_id
                 ELSE options[1].option_id,
             context_adjustment |-> Max(-5000, Min(5000, adjustment.v)),
             emotional_state |-> _parse_emotional_state(emotional_state.s)]

\* _parse_decision_response(response_text, options)
_parse_decision_response(response, options) ==
    IF response.kind = "json" THEN DecisionFromData(response.data, options)
    ELSE DecisionFallback(options)

(***************************************************************************)
(* Inputs of the decision engine                                           *)
(***************************************************************************)
MaxOptions == 3

\* options as _simulate_decision_step builds them: option_1 .. option_n
OptionLists ==
    {[i \in 1..n |-> [option_id |-> i]] : n \in 1..MaxOptions}

ChosenOptions ==
    {JNum(-1), JNum(0), JNum(1), JNum(2), JNum(MaxOptions + 1),
     JStr(<<"2">>), JNull}

EmotionalLabels ==
    {JStr(<<"a", "n", "g", "r", "y">>), JStr(<<"A", "N", "G", "R", "Y">>),
     JStr(<<"b", "o", "r", "e", "d">>), JNull}

ContextAdjustments ==
    {JNum(-10000), JNum(-1000), JNum(5000), JNum(7550),
     JStr(<<"1", "2">>), JStr(<<"-", "8", "0">>), JStr(<<"p", "l", "e", "n", "t", "y">>),
     JNull}

DecisionFields ==
    [chosen_option : ChosenOptions, emotional_state : EmotionalLabels,
     context_adjustment : ContextAdjustments]

DecisionData ==
    {<<>>}
    \cup {[k \in {"chosen_option"} |-> c] : c \in ChosenOptions}
    \cup {[k \in {"emotional_state"} |-> e] : e \in EmotionalLabels}
    \cup {[k \in {"context_adjustment"} |-> a] : a \in ContextAdjustments}
    \cup DecisionFields

DecisionResponses ==
    {[kind |-> "unparsable"]}
    \cup {[kind |-> "json", data |-> d] : d \in DecisionData}

InitDecision == InitMarket

ParseDecisionResponse ==
    /\ call = NoCall
    /\ \E response \in DecisionResponses, options \in OptionLists :
        call' = [op |-> "_parse_decision_response",
                 response |-> response,
                 options |-> options,
                 ret |-> _parse_decision_response(response, options)]
    /\ UNCHANGED <<churnVars, prio, sim>>

NextDecision == ParseDecisionResponse

SpecDecision == InitDecision /\ [][NextDecision]_vars

(***************************************************************************)
(* Claims about the decision engine                                        *)
(***************************************************************************)
DecisionParsed == call.op = "_parse_decision_response"

\* C19: for a non-empty list of options and a response that parses as a
\* JSON object, _parse_decision_response returns an adjustment within
\* [-50, 50], the id of one of the offered options (a chosen_option outside
\* 1..len(options) selects the first) and an emotional state of the
\* 7-value enum (an unknown label becomes neutral); for a response with no
\* parsable JSON it returns the first option, 0 and neutral.
C19_DecisionWellFormed ==
    DecisionParsed =>
        LET ret == call.ret
            options == call.options
            ids == {options[i].option_id : i \in DOMAIN options}
        IN /\ ret.raised = None
           /\ ret.context_adjustment >= -5000
           /\ ret.context_adjustment <= 5000
           /\ ret.chosen_option_id \in ids
           /\ ret.emotional_state \in EmotionalState
           /\ call.response.kind # "json" =>
                  /\ ret.chosen_option_id = options[1].option_id
                  /\ ret.context_adjustment = 0
                  /\ ret.emotional_state = "neutral"
           /\ (/\ call.response.kind = "json"
               /\ "chosen_option" \in DOMAIN call.response.data
               /\ call.response.data["chosen_option"].t = "num"
               /\ call.response.data["chosen_option"].v \notin 1..Len(options))
                  => ret.chosen_option_id = options[1].option_id

(***************************************************************************)
(*                          SCENARIO SIMULATOR                             *)
(* _simulate_scenario, one action per iteration of its loop over the       *)
(* template's steps; the iteration of the last step carries the rest of    *)
(* the method.  Times are whole seconds.                                   *)
(***************************************************************************)
StepType ==
    {"action", "system_response", "decision_point", "error", "success"}

ScenarioType == {"happy_path", "edge_case", "failure"}

\* _estimate_step_duration
_estimate_step_duration(step_type, step_template) ==
    IF step_type = "action" THEN 5
    ELSE IF step_type = "system_response" THEN 2
    ELSE IF step_type = "decision_point" THEN 10
    ELSE IF IsSubstring(<<"w", "a", "i", "t">>, Lower(step_template.description))
    THEN 120
    ELSE 3

\* make_decision: the request and _parse_decision_response inside a try
\* that catches every Exception; the fallback reads options[0] again
make_decision(response, options) ==
    IF options = <<>> THEN [raised |-> "IndexError"]
    ELSE LET fallback == [raised |-> None,
                          chosen_option_id |-> options[1].option_id,
                          context_adjustment |-> 0,
                          emotional_state |-> "frustrated"]
         IN IF response.kind \in {"raise", "empty"} THEN fallback
            ELSE LET result == _parse_decision_response(response, options)
                 IN IF result.raised # None THEN fallback ELSE result

PatienceLevel == {"low", "medium", "high"}

\* the keys generate_virtual_user reads with user_data[...]
RequiredUserKeys ==
    {"name", "age", "occupation", "location", "problem_context",
     "primary_goal", "sensitivities", "traits", "patience_level",
     "frustration_triggers"}

\* generate_virtual_user without persona_data: the request, the parse and
\* the construction of the VirtualUser inside a try whose handler prints
\* the error and raises it again; patience_multiplier and base_churn_risk
\* take the defaults of the VirtualUser model
generate_virtual_user(response) ==
    IF response.kind = "raise" THEN [raised |-> "APIError"]
    ELSE IF response.kind # "json" THEN [raised |-> "JSONDecodeError"]
    ELSE LET user_data == response.data
         IN IF ~(RequiredUserKeys \subseteq user_data.keys)
            THEN [raised |-> "KeyError"]
            ELSE IF user_data.patience_level \notin PatienceLevel
            THEN [raised |-> "ValueError"]
            ELSE [raised |-> None,
                  user |-> [patience_level |-> user_data.patience_level,
                            patience_multiplier |-> 15,
                            frustration_triggers |->
                                user_data.frustration_triggers,
                            base_churn_risk |-> 1000]]

\* "error" in e.get("event", ""): of the event names in use, the one that
\* holds the word
HasError(event_name) == event_name = "error_encountered"

\* JourneyStep(...): frustration_level is validated into [0,10]
JourneyStepValid(frustration_level) ==
    frustration_level >= 0 /\ frustration_level <= 1000

\* _simulate_decision_step; frustration_level in hundredths
_simulate_decision_step(step_num, step_template, problem_context, churn_calc, table, frustration_events, cumulative_time, step_duration, response) ==
    LET options == [i \in DOMAIN step_template.options |-> [option_id |-> i]]
        context ==
            [time_invested_seconds |-> cumulative_time,
             urgency |-> IF IsSubstring(<<"u", "r", "g", "e", "n", "t">>, Lower(problem_context))
                         THEN "high" ELSE "medium",
             alternatives_available |-> Len(options) > 2,
             failure_count |->
                 Cardinality({i \in DOMAIN frustration_events :
                                 HasError(frustration_events[i].event)})]
        churn_analysis == calculate_churn(churn_calc, table,
                                          frustration_events, context, 0)
        decision == make_decision(response, options)
    IN IF churn_analysis.raised # None THEN [raised |-> churn_analysis.raised]
       ELSE IF decision.raised # None THEN [raised |-> decision.raised]
       ELSE
       LET final_churn_analysis ==
               calculate_churn(churn_calc, table, frustration_events, context,
                               decision.context_adjustment)
           frustration_level ==
               Min(final_churn_analysis.final_churn_probability \div 10, 1000)
       IN IF ~JourneyStepValid(frustration_level)
          THEN [raised |-> "ValidationError"]
          ELSE [raised |-> None,
                step_number |-> step_num,
                step_type |-> "decision_point",
                description |-> step_template.description,
                emotional_state |-> decision.emotional_state,
                frustration_level |-> frustration_level,
                churn_analysis |-> final_churn_analysis,
                is_decision_point |-> TRUE,
                chosen_option |-> decision.chosen_option_id,
                time_elapsed |-> cumulative_time,
                step_duration |-> step_duration]

\* (mutation: the sunk-cost factor of the elapsed time passed as the
\* adjustment of a regular step)
_simulate_regular_step_SunkCostApplied(step_num, step_type, step_template, churn_calc, table, frustration_events, cumulative_time, step_duration) ==
    LET context == [time_invested_seconds |-> cumulative_time,
                    urgency |-> "medium",
                    alternatives_available |-> FALSE,
                    failure_count |-> 1]
        churn_analysis == calculate_churn(churn_calc, table,
                                          frustration_events, context,
                                          0 - (cumulative_time * 5))
    IN IF churn_analysis.raised # None THEN [raised |-> churn_analysis.raised]
       ELSE [raised |-> None,
             step_number |-> step_num,
             step_type |-> step_type,
             description |-> step_template.description,
             emotional_state |-> "neutral",
             frustration_level |-> 500,
             churn_analysis |-> churn_analysis,
             is_decision_point |-> FALSE,
             chosen_option |-> 0,
             time_elapsed |-> cumulative_time,
             step_duration |-> step_duration]

\* _simulate_regular_step; the context holds the elapsed time only, so
\* _parse_ai_adjustments reads its defaults for the other three keys
_simulate_regular_step(step_num, step_type, step_template, churn_calc, table, frustration_events, cumulative_time, step_duration) ==
    LET description == step_template.description
        expected_outcome == step_template.expected_outcome
        failed == IsSubstring(<<"e", "r", "r", "o", "r">>, Lower(description))
                  \/ IsSubstring(<<"f", "a", "i", "l">>, Lower(expected_outcome))
        succeeded == IsSubstring(<<"s", "u", "c", "c", "e", "s", "s">>, Lower(expected_outcome))
        context == [time_invested_seconds |-> cumulative_time,
                    urgency |-> "medium",
                    alternatives_available |-> FALSE,
                    failure_count |-> 1]
        churn_analysis == calculate_churn(churn_calc, table,
                                          frustration_events, context, 0)
    IN IF churn_analysis.raised # None THEN [raised |-> churn_analysis.raised]
       ELSE [raised |-> None,
             step_number |-> step_num,
             step_type |-> step_type,
             description |-> description,
             emotional_state |-> IF failed THEN "frustrated"
                                 ELSE IF succeeded THEN "hopeful"
                                 ELSE "neutral",
             frustration_level |-> IF failed THEN 700
                                   ELSE IF succeeded THEN 300 ELSE 500,
             churn_analysis |-> churn_analysis,
             is_decision_point |-> FALSE,
             chosen_option |-> 0,
             time_elapsed |-> cumulative_time,
             step_duration |-> step_duration]

\* (mutation: the outcome taken from the highest churn seen so far)
FinalChurnOf_Highest(simulated_steps, current_churn) ==
    Max(current_churn,
        simulated_steps[Len(simulated_steps)].churn_analysis
            .final_churn_probability)

\* final_churn = simulated_steps[-1].churn_analysis.final_churn_probability
\* (every step built carries a churn_analysis)
FinalChurnOf(simulated_steps, current_churn) ==
    simulated_steps[Len(simulated_steps)].churn_analysis
        .final_churn_probability

Outcome(final_churn) ==
    IF final_churn > 7500 THEN "User churned - Gave up completely"
    ELSE IF final_churn > 5000
    THEN "Partial success - User frustrated but completed"
    ELSE "Success - User achieved goal"

\* _generate_scenario_insights: what its three sentences are built from
_generate_scenario_insights(steps) ==
    LET best == CHOOSE i \in DOMAIN steps :
                    /\ \A k \in DOMAIN steps :
                           steps[k].churn_analysis.final_churn_probability
                               <= steps[i].churn_analysis.final_churn_probability
                    /\ \A k \in 1..(i - 1) :
                           steps[k].churn_analysis.final_churn_probability
                               < steps[i].churn_analysis.final_churn_probability
    IN [max_churn_step |-> steps[best].step_number,
        decision_points |-> Cardinality({i \in DOMAIN steps :
                                            steps[i].is_decision_point}),
        total_time |-> steps[Len(steps)].time_elapsed]

\* (mutation: the step's type alone decides, its description unread)
AddsFrustration_TypeOnly(step_type, step_template) == step_type = "error"

\* step_type == StepType.ERROR or "error" in description.lower(): the
\* regular step just simulated leaves an error_encountered event
AddsFrustration(step_type, step_template) ==
    \/ step_type = "error"
    \/ IsSubstring(<<"e", "r", "r", "o", "r">>, Lower(step_template.description))

\* scenario_id = template["scenario_name"].lower().replace(" ", "_")
ScenarioId(scenario_name) ==
    LET low == Lower(scenario_name)
    IN [i \in DOMAIN low |-> IF low[i] = " " THEN "_" ELSE low[i]]

\* the statements after the loop
Finish(s) ==
    IF s.simulated_steps = <<>>
    THEN [s EXCEPT !.pc = "raised", !.error = "IndexError"]
    ELSE LET final_churn == FinalChurnOf(s.simulated_steps, s.current_churn)
         IN [s EXCEPT
               !.pc = "returned",
               !.scenario =
                   [scenario_id |-> ScenarioId(s.template.scenario_name),
                    scenario_name |-> s.template.scenario_name,
                    scenario_type |-> s.template.scenario_type,
                    steps |-> s.simulated_steps,
                    outcome |-> Outcome(final_churn),
                    final_churn_probability |-> final_churn,
                    key_insights |->
                        _generate_scenario_insights(s.simulated_steps)]]

\* after an iteration: the loop goes on, or the method ends
AfterStep(s) ==
    IF Len(s.simulated_steps) = Len(s.template.steps) THEN Finish(s) ELSE s

(***************************************************************************)
(* Inputs of the scenario simulator                                        *)
(***************************************************************************)
MaxSteps == 3

StepTemplates ==
    {[step_type |-> "action", description |-> <<"U", "s", "e", "r", " ", "o", "p", "e", "n", "s", " ", "a", "p", "p">>,
      expected_outcome |-> <<"A", "p", "p", " ", "l", "o", "a", "d", "s", " ", "s", "u", "c", "c", "e", "s", "s", "f", "u", "l", "l", "y">>,
      decision_needed |-> FALSE, options |-> <<>>],
     [step_type |-> "error", description |-> <<"P", "a", "y", "m", "e", "n", "t", " ", "d", "e", "c", "l", "i", "n", "e", "d">>,
      expected_outcome |-> <<"B", "o", "o", "k", "i", "n", "g", " ", "f", "a", "i", "l", "s">>,
      decision_needed |-> FALSE, options |-> <<>>],
     [step_type |-> "success", description |-> <<"W", "a", "i", "t", " ", "o", "n", " ", "E", "R", "R", "O", "R", " ", "p", "a", "g", "e">>,
      expected_outcome |-> <<"D", "r", "i", "v", "e", "r", " ", "f", "o", "u", "n", "d">>,
      decision_needed |-> FALSE, options |-> <<>>],
     [step_type |-> "decision_point", description |-> <<"E", "r", "r", "o", "r", " ", "n", "o", " ", "c", "a", "b", "s", " ", "f", "o", "u", "n", "d">>,
      expected_outcome |-> <<"s", "u", "c", "c", "e", "s", "s">>,
      decision_needed |-> TRUE,
      options |-> <<"Retry immediately", "Try alternative service", "Give up">>],
     [step_type |-> "system_response", description |-> <<"P", "r", "i", "c", "e", " ", "w", "e", "n", "t", " ", "u", "p">>,
      expected_outcome |-> <<"s", "u", "c", "c", "e", "s", "s">>,
      decision_needed |-> TRUE, options |-> <<>>],
     [step_type |-> "swipe", description |-> <<"U", "s", "e", "r", " ", "o", "p", "e", "n", "s", " ", "a", "p", "p">>,
      expected_outcome |-> <<"A", "p", "p", " ", "l", "o", "a", "d", "s", " ", "s", "u", "c", "c", "e", "s", "s", "f", "u", "l", "l", "y">>,
      decision_needed |-> FALSE, options |-> <<>>]}

\* the templates the collaborator returns; keys is the set of keys a template
\* carries (a template the collaborator wrote without its scenario_name has
\* no such key)
ScenarioTemplates ==
    [keys : {{"scenario_name", "scenario_type", "description", "steps"},
             {"scenario_type", "description", "steps"}},
     scenario_name : {<<"E", "d", "g", "e", " ", "C", "a", "s", "e">>},
     scenario_type : {"edge_case", "disaster"},
     steps : SeqsUpTo(StepTemplates, MaxSteps)]

SimUsers ==
    {u \in VirtualUsers :
        /\ u.patience_multiplier = 15
        /\ u.frustration_triggers = <<>>}

ProblemContexts == {<<"D", "a", "i", "l", "y", " ", "c", "o", "m", "m", "u", "t", "e", "r">>, <<"U", "r", "g", "e", "n", "t", " ", "a", "i", "r", "p", "o", "r", "t", " ", "t", "r", "i", "p", "s">>}

SimResponses ==
    {[kind |-> "raise"], [kind |-> "unparsable"],
     [kind |-> "json",
      data |-> [chosen_option |-> JNum(2),
                emotional_state |-> JStr(<<"A", "n", "g", "r", "y">>),
                context_adjustment |-> JNum(7550)]],
     [kind |-> "json",
      data |-> [chosen_option |-> JNum(1),
                emotional_state |-> JStr(<<"h", "o", "p", "e", "f", "u", "l">>),
                context_adjustment |-> JNum(-7000)]]}

\* what the collaborator answers to the request for a user profile
UserResponses ==
    {[kind |-> "raise"], [kind |-> "unparsable"]}
    \cup {[kind |-> "json",
           data |-> [keys |-> RequiredUserKeys \ missing,
                     patience_level |-> patience_level,
                     frustration_triggers |-> <<>>]] :
             missing \in {{}, {"name"}, {"patience_level"}},
             patience_level \in {"low", "medium", "very low"}}

InitSim ==
    /\ FRUSTRATION_WEIGHTS = DeclaredWeights
    /\ calc = NoCall
    /\ churn = NoCall
    /\ call = NoCall
    /\ prio = NoCall
    /\ sim = Idle

\* generate_virtual_user
GenerateVirtualUser ==
    /\ sim.pc = "idle"
    /\ \E response \in UserResponses :
        LET ret == generate_virtual_user(response)
        IN sim' = [pc |-> IF ret.raised # None
                          THEN "user_raised" ELSE "user_returned",
                   response |-> response,
                   ret |-> ret]
    /\ UNCHANGED <<churnVars, call, prio>>

\* the call, up to the loop
SimulateScenario ==
    /\ sim.pc = "idle"
    /\ \E template \in ScenarioTemplates, virtual_user \in SimUsers,
          problem_context \in ProblemContexts :
        LET s == [pc |-> "loop",
                  template |-> template,
                  problem_context |-> problem_context,
                  churn_calc |-> NewChurnCalculator(virtual_user),
                  simulated_steps |-> <<>>,
                  cumulative_time |-> 0,
                  frustration_events |-> <<>>,
                  current_churn |-> virtual_user.base_churn_risk,
                  error |-> None,
                  scenario |-> None]
        IN sim' = IF "scenario_name" \notin template.keys
                  THEN [s EXCEPT !.pc = "raised", !.error = "KeyError"]
                  ELSE IF template.scenario_type \notin ScenarioType
                  THEN [s EXCEPT !.pc = "raised", !.error = "ValueError"]
                  ELSE AfterStep(s)
    /\ UNCHANGED <<churnVars, call, prio>>

\* one iteration of the loop
SimulateStep ==
    /\ sim.pc = "loop"
    /\ LET idx == Len(sim.simulated_steps)
           step_template == sim.template.steps[idx + 1]
           step_num == idx + 1
           step_type == step_template.step_type
       IN IF step_type \notin StepType
          THEN /\ sim' = [sim EXCEPT !.pc = "raised", !.error = "ValueError"]
          ELSE
          LET step_duration ==
                  _estimate_step_duration(step_type, step_template)
              cumulative_time == sim.cumulative_time + step_duration
              is_decision == step_type = "decision_point"
                             \/ step_template.decision_needed
          IN IF is_decision
             THEN \E response \in SimResponses :
                    LET step == _simulate_decision_step(
                                    step_num, step_template,
                                    sim.problem_context, sim.churn_calc,
                                    FRUSTRATION_WEIGHTS,
                                    sim.frustration_events, cumulative_time,
                                    step_duration, response)
                    IN sim' =
                        IF step.raised # None
                        THEN [sim EXCEPT !.pc = "raised",
                                         !.error = step.raised]
                        ELSE AfterStep(
                               [sim EXCEPT
                                  !.simulated_steps = Append(@, step),
                                  !.cumulative_time = cumulative_time,
                                  !.current_churn =
                                      Max(@, step.churn_analysis
                                                 .final_churn_probability)])
             ELSE LET step == _simulate_regular_step(
                                  step_num, step_type, step_template,
                                  sim.churn_calc, FRUSTRATION_WEIGHTS,
                                  sim.frustration_events, cumulative_time,
                                  step_duration)
                      adds == AddsFrustration(step_type, step_template)
                  IN sim' =
                      IF step.raised # None
                      THEN [sim EXCEPT !.pc = "raised", !.error = step.raised]
                      ELSE AfterStep(
                             [sim EXCEPT
                                !.simulated_steps = Append(@, step),
                                !.cumulative_time = cumulative_time,
                                !.frustration_events =
                                    IF adds
                                    THEN Append(@, [event |-> "error_encountered",
                                                    severity |-> 100])
                                    ELSE @])
    /\ UNCHANGED <<churnVars, call, prio>>

NextSim == GenerateVirtualUser \/ SimulateScenario \/ SimulateStep

SpecSim == InitSim /\ [][NextSim]_vars

(***************************************************************************)
(* Claims about the scenario simulator                                     *)
(***************************************************************************)
SimReturned == sim.pc = "returned"

\* C18: a simulated scenario's outcome is determined by the
\* final_churn_probability of its last step alone: above 75 'User churned',
\* above 50 and at most 75 'Partial success', otherwise 'Success'; the
\* scenario's final_churn_probability is that last step's value, whatever
\* higher values earlier steps reached.
C18_LastStepChurn ==
    sim.scenario.steps[Len(sim.scenario.steps)].churn_analysis
        .final_churn_probability

C18_OutcomeFromLastStep ==
    SimReturned =>
        /\ sim.scenario.steps # <<>>
        /\ sim.scenario.final_churn_probability = C18_LastStepChurn
        /\ C18_LastStepChurn > 7500
               => sim.scenario.outcome = "User churned - Gave up completely"
        /\ (C18_LastStepChurn > 5000 /\ C18_LastStepChurn <= 7500)
               => sim.scenario.outcome
                      = "Partial success - User frustrated but completed"
        /\ C18_LastStepChurn <= 5000
               => sim.scenario.outcome = "Success - User achieved goal"

\* a decision step above 75 followed by a last step at 50 or less: the
\* scenario is a Success
C18_Witness ==
    /\ SimReturned
    /\ Len(sim.scenario.steps) >= 2
    /\ \E i \in 1..(Len(sim.scenario.steps) - 1) :
           sim.scenario.steps[i].churn_analysis.final_churn_probability > 7500
    /\ C18_LastStepChurn <= 5000
    /\ sim.scenario.outcome = "Success - User achieved goal"

\* C21: at every reasoning-collaborator call site of the simulation
\* subsystem a response with no JSON, malformed JSON, a missing required
\* field or an out-of-enum value (an unknown patience_level, scenario_type
\* or step_type, a template without scenario_name, a scenario with no
\* steps) results in a fixed fallback value and never in an uncaught error.
C21_ParseFailureRaised ==
    \/ sim.pc = "user_raised"
    \/ /\ sim.pc = "raised"
       /\ \/ sim.error \in {"KeyError", "ValueError"}
          \/ sim.error = "IndexError" /\ sim.template.steps = <<>>

C21_ParseFailuresNeverRaise == ~C21_ParseFailureRaised

\* C26: for every decision-point step, every user profile and every
\* collaborator adjustment within [-50, 50], _simulate_decision_step
\* completes and returns a JourneyStep whose frustration_level =
\* min(final_churn_probability / 10, 10) lies in [0,10]; a strongly negative
\* adjustment applied to a low calculated risk does not make the step (and
\* with it the whole simulation) fail.
C26_RaisedInDecisionStep ==
    /\ sim.pc = "raised"
    /\ sim.error \in {"ValidationError", "IndexError"}
    /\ Len(sim.simulated_steps) < Len(sim.template.steps)
    /\ LET step_template == sim.template.steps[Len(sim.simulated_steps) + 1]
       IN /\ step_template.step_type \in StepType
          /\ \/ step_template.step_type = "decision_point"
             \/ step_template.decision_needed

C26_DecisionStepCompletes ==
    /\ ~C26_RaisedInDecisionStep
    /\ sim.pc \in {"loop", "returned", "raised"} =>
           \A i \in DOMAIN sim.simulated_steps :
               sim.simulated_steps[i].is_decision_point =>
                   /\ sim.simulated_steps[i].frustration_level >= 0
                   /\ sim.simulated_steps[i].frustration_level <= 1000

\* the steps simulated so far, while the loop runs and after it
SimSteps ==
    IF sim.pc \in {"loop", "returned", "raised"}
    THEN sim.simulated_steps ELSE <<>>

StepChurn(i) == SimSteps[i].churn_analysis.final_churn_probability

\* C27: within one simulated scenario the running list of frustration
\* events only grows (the events a step's analysis lists are a prefix of
\* those listed by every later step), and the final_churn_probability
\* recorded on regular steps is non-decreasing in step order: churn(j) <=
\* churn(k) for regular steps j < k; only decision-point steps can record a
\* lower value than an earlier step.
C27_RegularStepsNonDecreasing ==
    \A j, k \in DOMAIN SimSteps :
        j < k =>
            LET ej == SimSteps[j].churn_analysis.frustration_events
                ek == SimSteps[k].churn_analysis.frustration_events
            IN /\ Len(ej) <= Len(ek)
               /\ ej = SubSeq(ek, 1, Len(ej))
               /\ StepChurn(k) < StepChurn(j)
                      => \/ SimSteps[j].is_decision_point
                         \/ SimSteps[k].is_decision_point

\* an error step, then a decision step that records less than it, then a
\* regular step that records more than the first
C27_Witness ==
    /\ SimReturned
    /\ Len(SimSteps) = 3
    /\ ~SimSteps[1].is_decision_point
    /\ SimSteps[2].is_decision_point
    /\ ~SimSteps[3].is_decision_point
    /\ StepChurn(2) < StepChurn(1)
    /\ StepChurn(1) < StepChurn(3)
    /\ Len(SimSteps[3].churn_analysis.frustration_events) = 1

\* C28: the churn analysis recorded on step k is computed from exactly one
\* error_encountered event (severity 1.0) per earlier regular step j < k
\* whose step_type is error or whose description contains 'error'; a step's
\* own error is counted from the next step on, decision-point steps never
\* add events, and time_elapsed of step k equals the sum of the durations
\* of steps 1..k with step_number = k.
C28_AddsEvent(step_template) ==
    /\ step_template.step_type # "decision_point"
    /\ ~step_template.decision_needed
    /\ \/ step_template.step_type = "error"
       \/ \E i \in 1..(Len(step_template.description) - 4) :
              Lower(SubSeq(step_template.description, i, i + 4))
                  = <<"e", "r", "r", "o", "r">>

OutcomeChars(outcome) ==
    CASE outcome = "User churned - Gave up completely" ->
             <<"U", "s", "e", "r", " ", "c", "h", "u", "r", "n", "e", "d", " ", "-", " ", "G", "a", "v", "e", " ", "u", "p", " ", "c", "o", "m", "p", "l", "e", "t", "e", "l", "y">>
      [] outcome = "Partial success - User frustrated but completed" ->
             <<"P", "a", "r", "t", "i", "a", "l", " ", "s", "u", "c", "c", "e", "s", "s", " ", "-", " ", "U", "s", "e", "r", " ", "f", "r", "u", "s", "t", "r", "a", "t", "e", "d", " ", "b", "u", "t", " ", "c", "o", "m", "p", "l", "e", "t", "e", "d">>
      [] outcome = "Success - User achieved goal" ->
             <<"S", "u", "c", "c", "e", "s", "s", " ", "-", " ", "U", "s", "e", "r", " ", "a", "c", "h", "i", "e", "v", "e", "d", " ", "g", "o", "a", "l">>

RECURSIVE ChurnTotal(_)
ChurnTotal(scenarios) ==
    IF scenarios = <<>> THEN 0
    ELSE Head(scenarios).final_churn_probability + ChurnTotal(Tail(scenarios))

\* (mutation: a scenario counted as successful when its outcome text
\* starts with 'success')
_generate_summary_insights_CompletedOnly(scenarios) ==
    [avg_churn |-> IF scenarios # <<>>
                   THEN RoundDiv(ChurnTotal(scenarios), 10 * Len(scenarios))
                   ELSE 0,
     success |-> Cardinality({i \in DOMAIN scenarios :
                     SubSeq(Lower(OutcomeChars(scenarios[i].outcome)), 1, 7)
                         = <<"s", "u", "c", "c", "e", "s", "s">>}),
     churn |-> Cardinality({i \in DOMAIN scenarios :
                   IsSubstring(<<"c", "h", "u", "r", "n">>,
                               Lower(OutcomeChars(scenarios[i].outcome)))}),
     total |-> Len(scenarios)]

\* _generate_summary_insights: the numbers its two sentences print; the
\* average in tenths, as the text shows it
_generate_summary_insights(scenarios) ==
    [avg_churn |-> IF scenarios # <<>>
                   THEN RoundDiv(ChurnTotal(scenarios), 10 * Len(scenarios))
                   ELSE 0,
     success |-> Cardinality({i \in DOMAIN scenarios :
                     IsSubstring(<<"s", "u", "c", "c", "e", "s", "s">>,
                                 Lower(OutcomeChars(scenarios[i].outcome)))}),
     churn |-> Cardinality({i \in DOMAIN scenarios :
                   IsSubstring(<<"c", "h", "u", "r", "n">>,
                               Lower(OutcomeChars(scenarios[i].outcome)))}),
     total |-> Len(scenarios)]

(***************************************************************************)
(* Inputs of the summary: scenarios as _simulate_scenario returns them,    *)
(* the outcome following from the final churn probability                  *)
(***************************************************************************)
MaxScenarios == 3

SummaryChurns == {1000, 5000, 5001, 7500, 7501, 10000}

SummaryScenarios ==
    {[final_churn_probability |-> final_churn, outcome |-> Outcome(final_churn)] :
        final_churn \in SummaryChurns}

InitSummary == InitMarket

GenerateSummaryInsights ==
    /\ call = NoCall
    /\ \E scenarios \in SeqsUpTo(SummaryScenarios, MaxScenarios) :
        call' = [op |-> "_generate_summary_insights",
                 scenarios |-> scenarios,
                 ret |-> _generate_summary_insights(scenarios)]
    /\ UNCHANGED <<churnVars, prio, sim>>

NextSummary == GenerateSummaryInsights

SpecSummary == InitSummary /\ [][NextSummary]_vars

SummaryReturned == call.op = "_generate_summary_insights"

\* C30: in the summary insights over any list of simulated scenarios every
\* scenario is counted in exactly one of the two reported outcome counts:
\* successful + churned = total number of scenarios, where 'churned' counts
\* exactly the scenarios whose final churn probability is above 75 and
\* 'successful' counts all others, those whose outcome is 'Partial success'
\* included.
C30_EveryScenarioCountedOnce ==
    SummaryReturned =>
        LET scenarios == call.scenarios
            above == {i \in DOMAIN scenarios :
                         scenarios[i].final_churn_probability > 7500}
        IN /\ call.ret.success + call.ret.churn = Len(scenarios)
           /\ call.ret.total = Len(scenarios)
           /\ call.ret.churn = Cardinality(above)
           /\ call.ret.success = Len(scenarios) - Cardinality(above)

\* one scenario of each outcome: two successful, one churned
C30_Witness ==
    /\ SummaryReturned
    /\ Len(call.scenarios) = 3
    /\ call.scenarios[1].outcome = "Success - User achieved goal"
    /\ call.scenarios[2].outcome
           = "Partial success - User frustrated but completed"
    /\ call.scenarios[3].outcome = "User churned - Gave up completely"
    /\ call.ret.success = 2
    /\ call.ret.churn = 1

=============================================================================
